---- MODULE Spec2Model ----
(***************************************************************************)
(* Model of the options-dashboard GET /api/options route handler.          *)
(*                                                                         *)
(* The repository holds five drafts of the handler.  They share one        *)
(* control flow and differ in the helpers they call; the variable `draft`  *)
(* selects the draft a request runs:                                       *)
(*   "p000"  src/unnamed/part_000                                          *)
(*   "r1"    src/app/api/options/route.ts, lines 1-277                     *)
(*   "p001"  src/unnamed/part_001                                          *)
(*   "p002"  src/unnamed/part_002                                          *)
(*   "r2"    src/app/api/options/route.ts, lines 279-594                   *)
(*                                                                         *)
(* JSON values are tagged records.  Strings that the code inspects         *)
(* character by character (numeric strings, object keys, tickers, dates)   *)
(* are tuples of one-character strings.  Numbers are integers (price       *)
(* ticks); quotes are drawn so that bid + ask is even and the midpoint is  *)
(* exact.                                                                  *)
(***************************************************************************)
EXTENDS Integers, Sequences, FiniteSets, TLC

(***************************************************************************)
(* JSON values                                                             *)
(***************************************************************************)
Undef == [t |-> "undef"]
Null == [t |-> "null"]
Num(n) == [t |-> "num", n |-> n]
Str(s) == [t |-> "str", s |-> s]
Obj(f) == [t |-> "obj", f |-> f]
Arr(a) == [t |-> "arr", a |-> a]

IsNullish(v) == v.t \in {"undef", "null"}

\* JavaScript truthiness of a JSON value.
Truthy(v) ==
  CASE v.t \in {"undef", "null"} -> FALSE
    [] v.t = "num" -> v.n # 0
    [] v.t = "str" -> v.s # <<>>
    [] OTHER -> TRUE

\* `key in obj` for an object value.
HasKey(o, k) == o.t = "obj" /\ \E i \in 1..Len(o.f) : o.f[i][1] = k

\* obj?.key : undefined on null/undefined/primitive receivers and on a
\* missing key.
Get(o, k) ==
  IF HasKey(o, k)
    THEN o.f[CHOOSE i \in 1..Len(o.f) : o.f[i][1] = k][2]
    ELSE Undef

\* An object literal that leaves out the fields whose value is undefined.
RECURSIVE Fields(_)
Fields(pairs) ==
  IF pairs = <<>> THEN <<>>
  ELSE IF Head(pairs)[2].t = "undef" THEN Fields(Tail(pairs))
  ELSE <<Head(pairs)>> \o Fields(Tail(pairs))

MkObj(pairs) == Obj(Fields(pairs))

(***************************************************************************)
(* Character strings                                                       *)
(***************************************************************************)
Digits == <<"0", "1", "2", "3", "4", "5", "6", "7", "8", "9">>

IsDigit(c) == \E i \in 1..10 : Digits[i] = c

DigitVal(c) == (CHOOSE i \in 1..10 : Digits[i] = c) - 1

IsSpace(c) == c \in {" ", "\t"}

RECURSIVE TrimStart(_)
TrimStart(s) ==
  IF s # <<>> /\ IsSpace(Head(s)) THEN TrimStart(Tail(s)) ELSE s

RECURSIVE TrimEnd(_)
TrimEnd(s) ==
  IF s # <<>> /\ IsSpace(s[Len(s)]) THEN TrimEnd(SubSeq(s, 1, Len(s) - 1)) ELSE s

\* String.prototype.trim
Trim(s) == TrimEnd(TrimStart(s))

Lowers ==
  <<"a", "b", "c", "d", "e", "f", "g", "h", "i", "j", "k", "l", "m",
    "n", "o", "p", "q", "r", "s", "t", "u", "v", "w", "x", "y", "z">>

Uppers ==
  <<"A", "B", "C", "D", "E", "F", "G", "H", "I", "J", "K", "L", "M",
    "N", "O", "P", "Q", "R", "S", "T", "U", "V", "W", "X", "Y", "Z">>

UpperOf(c) ==
  IF \E i \in 1..26 : Lowers[i] = c
    THEN Uppers[CHOOSE i \in 1..26 : Lowers[i] = c]
    ELSE c

LowerOf(c) ==
  IF \E i \in 1..26 : Uppers[i] = c
    THEN Lowers[CHOOSE i \in 1..26 : Uppers[i] = c]
    ELSE c

\* String.prototype.toUpperCase / toLowerCase
ToUpperCase(s) == [i \in 1..Len(s) |-> UpperOf(s[i])]
ToLowerCase(s) == [i \in 1..Len(s) |-> LowerOf(s[i])]

\* Whether `sub` occurs in `s` (a regular expression that is a plain word).
Contains(s, sub) ==
  \E i \in 1..(Len(s) - Len(sub) + 1) : SubSeq(s, i, i + Len(sub) - 1) = sub

\* Lexicographic order on strings of digits and dashes by code unit, the
\* order of `<`, `>=` and of Array.prototype.sort on strings.
CodeUnit(c) == IF c = "-" THEN 45 ELSE 48 + DigitVal(c)

StrLess(a, b) ==
  LET differ == {i \in 1..(IF Len(a) < Len(b) THEN Len(a) ELSE Len(b)) :
                   a[i] # b[i]}
  IN IF differ = {} THEN Len(a) < Len(b)
     ELSE LET first == CHOOSE i \in differ : \A j \in differ : i <= j
          IN CodeUnit(a[first]) < CodeUnit(b[first])

StrGeq(a, b) == ~StrLess(a, b)

(***************************************************************************)
(* Object keys and words the code names, as character strings              *)
(***************************************************************************)
K ==
  [price |-> <<"p", "r", "i", "c", "e">>,
   last_price |-> <<"l", "a", "s", "t", "_", "p", "r", "i", "c", "e">>,
   close |-> <<"c", "l", "o", "s", "e">>,
   day_close |-> <<"d", "a", "y", "_", "c", "l", "o", "s", "e">>,
   c |-> <<"c">>,
   last |-> <<"l", "a", "s", "t">>,
   last_trade |-> <<"l", "a", "s", "t", "_", "t", "r", "a", "d", "e">>,
   p |-> <<"p">>,
   day |-> <<"d", "a", "y">>,
   last_quote |-> <<"l", "a", "s", "t", "_", "q", "u", "o", "t", "e">>,
   bid |-> <<"b", "i", "d">>,
   bid_price |-> <<"b", "i", "d", "_", "p", "r", "i", "c", "e">>,
   ask |-> <<"a", "s", "k">>,
   ask_price |-> <<"a", "s", "k", "_", "p", "r", "i", "c", "e">>,
   mid |-> <<"m", "i", "d">>,
   midpoint |-> <<"m", "i", "d", "p", "o", "i", "n", "t">>,
   mark |-> <<"m", "a", "r", "k">>,
   mark_price |-> <<"m", "a", "r", "k", "_", "p", "r", "i", "c", "e">>,
   details |-> <<"d", "e", "t", "a", "i", "l", "s">>,
   contract_type |-> <<"c", "o", "n", "t", "r", "a", "c", "t", "_", "t", "y", "p", "e">>,
   expiration_date |-> <<"e", "x", "p", "i", "r", "a", "t", "i", "o", "n", "_", "d", "a", "t", "e">>,
   strike_price |-> <<"s", "t", "r", "i", "k", "e", "_", "p", "r", "i", "c", "e">>,
   ticker |-> <<"t", "i", "c", "k", "e", "r">>,
   break_even_price |-> <<"b", "r", "e", "a", "k", "_", "e", "v", "e", "n", "_", "p", "r", "i", "c", "e">>,
   underlying_asset |-> <<"u", "n", "d", "e", "r", "l", "y", "i", "n", "g", "_", "a", "s", "s", "e", "t">>,
   lastTrade |-> <<"l", "a", "s", "t", "T", "r", "a", "d", "e">>,
   prevDay |-> <<"p", "r", "e", "v", "D", "a", "y">>,
   session |-> <<"s", "e", "s", "s", "i", "o", "n">>,
   strike |-> <<"s", "t", "r", "i", "k", "e">>,
   premium |-> <<"p", "r", "e", "m", "i", "u", "m">>,
   option |-> <<"o", "p", "t", "i", "o", "n">>,
   trade |-> <<"t", "r", "a", "d", "e">>,
   call |-> <<"c", "a", "l", "l">>]

(***************************************************************************)
(* Numeric coercion                                                        *)
(***************************************************************************)
NaN == [t |-> "nan"]

RECURSIVE DigitsValue(_, _)
DigitsValue(s, acc) ==
  IF s = <<>> THEN acc ELSE DigitsValue(Tail(s), 10 * acc + DigitVal(Head(s)))

AllDigits(s) == \A i \in 1..Len(s) : IsDigit(s[i])

AllZeros(s) == \A i \in 1..Len(s) : s[i] = "0"

\* An unsigned decimal literal with an integral value: digits, optionally
\* followed by "." and zeros.  (Literals with a fractional part or an
\* exponent lie outside the integer tick domain and are never drawn.)
IsUnsignedLiteral(s) ==
  \E n \in 1..Len(s) :
    /\ AllDigits(SubSeq(s, 1, n))
    /\ \/ n = Len(s)
       \/ s[n + 1] = "." /\ AllZeros(SubSeq(s, n + 2, Len(s)))

UnsignedValue(s) ==
  DigitsValue(SubSeq(s, 1, CHOOSE n \in 1..Len(s) :
    /\ AllDigits(SubSeq(s, 1, n))
    /\ (n = Len(s) \/ s[n + 1] = ".")), 0)

\* Number(string): surrounding white space is ignored, the empty string is 0,
\* anything that is not a numeric literal is NaN.
NumberOfString(s) ==
  LET t == Trim(s) IN
  IF t = <<>> THEN Num(0)
  ELSE IF Head(t) \in {"-", "+"}
    THEN IF IsUnsignedLiteral(Tail(t))
           THEN Num((IF Head(t) = "-" THEN -1 ELSE 1) * UnsignedValue(Tail(t)))
           ELSE NaN
  ELSE IF IsUnsignedLiteral(t) THEN Num(UnsignedValue(t))
  ELSE NaN

\* parseNumber of part_000, route.ts (both drafts) and part_002.
parseNumber(value) ==
  IF IsNullish(value) THEN Null
  ELSE LET num == IF value.t = "str" THEN NumberOfString(value.s) ELSE value
       IN IF num.t = "num" THEN num ELSE Null

RECURSIVE RemoveChars(_, _)
RemoveChars(s, drop) ==
  IF s = <<>> THEN <<>>
  ELSE IF Head(s) \in drop THEN RemoveChars(Tail(s), drop)
  ELSE <<Head(s)>> \o RemoveChars(Tail(s), drop)

RECURSIVE KeepChars(_, _)
KeepChars(s, keep) ==
  IF s = <<>> THEN <<>>
  ELSE IF Head(s) \in keep THEN <<Head(s)>> \o KeepChars(Tail(s), keep)
  ELSE KeepChars(Tail(s), keep)

NumericChars == {Digits[i] : i \in 1..10} \cup {"e", "E", "+", "-", "."}

sanitizeNumericString(value) ==
  LET trimmed == Trim(value) IN
  IF trimmed = <<>> THEN <<>>
  ELSE KeepChars(RemoveChars(trimmed, {",", "$"}), NumericChars)

\* parseNumber of part_001.
parseNumberSanitized(value) ==
  IF IsNullish(value) THEN Null
  ELSE IF value.t = "num" THEN value
  ELSE IF value.t = "str" THEN
    LET sanitized == sanitizeNumericString(value.s) IN
    IF sanitized \in {<<>>, <<"-">>, <<".">>, <<"-", ".">>, <<"+">>}
      THEN Null
      ELSE LET parsed == NumberOfString(sanitized)
           IN IF parsed.t = "num" THEN parsed ELSE Null
  ELSE Null

Drafts == {"p000", "r1", "p001", "p002", "r2"}

\* The parseNumber a draft defines.
parseNumberOf(d, value) ==
  IF d = "p001" THEN parseNumberSanitized(value) ELSE parseNumber(value)

\* firstNumber of part_001, part_002 and route.ts (second draft).
RECURSIVE firstNumber(_, _)
firstNumber(d, values) ==
  IF values = <<>> THEN Null
  ELSE LET parsed == parseNumberOf(d, Head(values))
       IN IF parsed.t # "null" THEN parsed ELSE firstNumber(d, Tail(values))

(***************************************************************************)
(* Underlying price resolver                                               *)
(***************************************************************************)
MaxScanDepth == 4

PRICE_KEY_PATTERNS == <<K.price, K.close, K.last, K.trade, K.bid, K.ask>>

PRICE_KEY_EXCLUSIONS == <<K.strike, K.premium, K.option>>

isPriceLikeKey(key) ==
  LET lower == ToLowerCase(key) IN
  /\ key # <<>>
  /\ ~\E i \in 1..Len(PRICE_KEY_EXCLUSIONS) :
        Contains(lower, PRICE_KEY_EXCLUSIONS[i])
  /\ \E i \in 1..Len(PRICE_KEY_PATTERNS) : Contains(lower, PRICE_KEY_PATTERNS[i])

RECURSIVE collectPriceCandidates(_, _)
RECURSIVE collectEntries(_, _)
RECURSIVE collectArray(_, _)

\* The loop over Object.entries(value) of collectPriceCandidates.
collectEntries(entries, depth) ==
  IF entries = <<>> THEN <<>>
  ELSE LET key == Head(entries)[1]
           entry == Head(entries)[2]
       IN (IF isPriceLikeKey(key) THEN <<entry>> ELSE <<>>)
          \o (IF entry.t \in {"obj", "arr", "null"}
                THEN collectPriceCandidates(entry, depth + 1)
                ELSE <<>>)
          \o collectEntries(Tail(entries), depth)

\* value.flatMap((entry) => collectPriceCandidates(entry, depth + 1))
collectArray(items, depth) ==
  IF items = <<>> THEN <<>>
  ELSE collectPriceCandidates(Head(items), depth + 1)
       \o collectArray(Tail(items), depth)

collectPriceCandidates(value, depth) ==
  IF depth > MaxScanDepth \/ IsNullish(value) THEN <<>>
  ELSE IF value.t \in {"num", "str"} THEN <<value>>
  ELSE IF value.t = "arr" THEN collectArray(value.a, depth)
  ELSE IF value.t = "obj" THEN collectEntries(value.f, depth)
  ELSE <<>>

\* The first candidate that parseNumber accepts, or null.
RECURSIVE firstParsed(_, _)
firstParsed(d, candidates) ==
  IF candidates = <<>> THEN Null
  ELSE LET parsed == parseNumberOf(d, Head(candidates))
       IN IF parsed.t # "null" THEN parsed ELSE firstParsed(d, Tail(candidates))

\* The candidates every snapshot-taking draft starts with.
baseCandidates(snapshot) ==
  <<Get(snapshot, K.price), Get(snapshot, K.last_price),
    Get(snapshot, K.close), Get(snapshot, K.day_close)>>
  \o (IF HasKey(snapshot, K.c) THEN <<Get(snapshot, K.c)>> ELSE <<>>)
  \o (IF HasKey(snapshot, K.last) THEN <<Get(snapshot, K.last)>> ELSE <<>>)

aliasCandidates(snapshot) ==
  (IF HasKey(snapshot, K.last_price)
     THEN <<Get(snapshot, K.last_price)>> ELSE <<>>)
  \o (IF HasKey(snapshot, K.price) THEN <<Get(snapshot, K.price)>> ELSE <<>>)

lastTradeCandidates(snapshot) ==
  IF HasKey(snapshot, K.last_trade)
    THEN <<Get(Get(snapshot, K.last_trade), K.price),
           Get(Get(snapshot, K.last_trade), K.p)>>
    ELSE <<>>

dayCandidatesShort(snapshot) ==
  IF HasKey(snapshot, K.day)
    THEN <<Get(Get(snapshot, K.day), K.close), Get(Get(snapshot, K.day), K.c)>>
    ELSE <<>>

dayCandidates(snapshot) ==
  IF HasKey(snapshot, K.day)
    THEN <<Get(Get(snapshot, K.day), K.close), Get(Get(snapshot, K.day), K.c),
           Get(Get(snapshot, K.day), K.last),
           Get(Get(snapshot, K.day), K.last_price),
           Get(Get(snapshot, K.day), K.price)>>
    ELSE <<>>

lastQuoteCandidates(snapshot) ==
  IF HasKey(snapshot, K.last_quote)
    THEN <<Get(Get(snapshot, K.last_quote), K.bid),
           Get(Get(snapshot, K.last_quote), K.bid_price),
           Get(Get(snapshot, K.last_quote), K.ask),
           Get(Get(snapshot, K.last_quote), K.ask_price),
           Get(Get(snapshot, K.last_quote), K.mid),
           Get(Get(snapshot, K.last_quote), K.midpoint)>>
    ELSE <<>>

\* part_002: explicit candidates, then the recursive scan of the snapshot.
directCandidates(snapshot) ==
  baseCandidates(snapshot) \o aliasCandidates(snapshot)
  \o lastTradeCandidates(snapshot) \o dayCandidates(snapshot)
  \o lastQuoteCandidates(snapshot)

pickUnderlyingPrice(snapshot) ==
  IF ~Truthy(snapshot) THEN Null
  ELSE firstParsed("p002",
         directCandidates(snapshot) \o collectPriceCandidates(snapshot, 0))

\* part_001: the same explicit candidates, no recursive scan.
pickUnderlyingPrice001(snapshot) ==
  IF ~Truthy(snapshot) THEN Null
  ELSE firstParsed("p001", directCandidates(snapshot))

\* route.ts, first draft.
pickUnderlyingPriceR1(snapshot) ==
  IF ~Truthy(snapshot) THEN Null
  ELSE firstParsed("r1",
         baseCandidates(snapshot) \o lastTradeCandidates(snapshot)
         \o dayCandidatesShort(snapshot) \o lastQuoteCandidates(snapshot))

\* part_000: takes the row and reads four fields of its underlying_asset.
pickUnderlyingPrice000(row) ==
  LET ua == Get(row, K.underlying_asset) IN
  firstParsed("p000",
    <<Get(Get(ua, K.last_trade), K.price), Get(Get(ua, K.day), K.close),
      Get(Get(ua, K.last_quote), K.bid), Get(Get(ua, K.last_quote), K.ask)>>)

\* The price a draft reads from one contract row.
pickUnderlyingFromRow(d, row) ==
  CASE d = "p000" -> pickUnderlyingPrice000(row)
    [] d = "r1" ->
         LET fromAsset == pickUnderlyingPriceR1(Get(row, K.underlying_asset))
         IN IF fromAsset.t # "null" THEN fromAsset
            ELSE pickUnderlyingPriceR1(
                   IF IsNullish(Get(row, K.day)) THEN Null ELSE Get(row, K.day))
    [] d = "p001" -> pickUnderlyingPrice001(Get(row, K.underlying_asset))
    [] d = "p002" -> pickUnderlyingPrice(Get(row, K.underlying_asset))
    [] OTHER -> Null

\* The price a draft reads from a page's underlying_asset (part_000 and the
\* second draft of route.ts read none).
pickFromPage(d, snapshot) ==
  CASE d = "r1" -> pickUnderlyingPriceR1(snapshot)
    [] d = "p001" -> pickUnderlyingPrice001(snapshot)
    [] d = "p002" -> pickUnderlyingPrice(snapshot)
    [] OTHER -> Null

\* A faulty variant of the candidate loop that settles for any number.
RECURSIVE firstNumeric(_)
firstNumeric(candidates) ==
  IF candidates = <<>> THEN Null
  ELSE LET price == parseNumber(Head(candidates))
       IN IF price.t # "null" THEN price
          ELSE firstNumeric(Tail(candidates))

\* route.ts, second draft: first of lastTrade.p, day.c, prevDay.c that is a
\* number greater than 0.
RECURSIVE firstPositive(_)
firstPositive(candidates) ==
  IF candidates = <<>> THEN Null
  ELSE LET price == parseNumber(Head(candidates))
       IN IF price.t # "null" /\ price.n > 0 THEN price
          ELSE firstPositive(Tail(candidates))

getUnderlyingSpotFromQuote(quote) ==
  LET quoteTicker == Get(quote, K.ticker) IN
  IF ~Truthy(quoteTicker) THEN Null
  ELSE firstPositive(<<Get(Get(quoteTicker, K.lastTrade), K.p),
                       Get(Get(quoteTicker, K.day), K.c),
                       Get(Get(quoteTicker, K.prevDay), K.c)>>)

(***************************************************************************)
(* URLs                                                                    *)
(***************************************************************************)
MASSIVE_HOST == "api.massive.com"

NoUrl == [kind |-> "none"]

Unreserved ==
  {Lowers[i] : i \in 1..26} \cup {Uppers[i] : i \in 1..26}
  \cup {Digits[i] : i \in 1..10} \cup {"-", "_", ".", "!", "~", "*", "'", "(", ")"}

PercentCode(c) ==
  CASE c = " " -> <<"%", "2", "0">>
    [] c = "/" -> <<"%", "2", "F">>
    [] c = "$" -> <<"%", "2", "4">>
    [] OTHER -> <<"%", "3", "F">>

RECURSIVE encodeURIComponent(_)
encodeURIComponent(s) ==
  IF s = <<>> THEN <<>>
  ELSE (IF Head(s) \in Unreserved THEN <<Head(s)>> ELSE PercentCode(Head(s)))
       \o encodeURIComponent(Tail(s))

\* url.searchParams.has("apiKey") || url.searchParams.append("apiKey", apiKey)
ensureApiKey(url) ==
  IF url.nkeys = 0 THEN [url EXCEPT !.nkeys = 1] ELSE url

PAGE_LIMIT == 250

\* new URL(`${MASSIVE_BASE}${encodeURIComponent(ticker)}`) with limit and
\* contract_type set and the key ensured.
initialUrl(tk) ==
  ensureApiKey([kind |-> "options", host |-> MASSIVE_HOST,
                path |-> encodeURIComponent(tk), limit |-> PAGE_LIMIT,
                contract_type |-> "call", ticker |-> <<>>, nkeys |-> 0])

\* The two stock-snapshot URLs fetchUnderlyingFallback tries, in order.
fallbackUrl(tk, index) ==
  IF index = 1
    THEN ensureApiKey([kind |-> "stocks", host |-> MASSIVE_HOST,
                       path |-> encodeURIComponent(tk), limit |-> 1,
                       contract_type |-> "", ticker |-> <<>>, nkeys |-> 0])
    ELSE ensureApiKey([kind |-> "stocks", host |-> MASSIVE_HOST,
                       path |-> <<>>, limit |-> 1,
                       contract_type |-> "", ticker |-> tk, nkeys |-> 0])

FALLBACK_ATTEMPTS == 2

\* fetchUnderlyingQuote's URL (route.ts, second draft).
quoteUrl(tk) ==
  ensureApiKey([kind |-> "stocks", host |-> MASSIVE_HOST,
                path |-> encodeURIComponent(tk), limit |-> 0,
                contract_type |-> "", ticker |-> <<>>, nkeys |-> 0])

\* A next_url cursor as the provider sends it: absent, null, a string
\* new URL() rejects, a URL whose query holds n apiKey parameters, or a URL
\* of another host.
CursorUrl(n) ==
  [kind |-> "cursor", host |-> MASSIVE_HOST, path |-> <<>>, limit |-> PAGE_LIMIT,
   contract_type |-> "call", ticker |-> <<>>, nkeys |-> n]

NextUrlValues ==
  {[k |-> "undef"], [k |-> "null"], [k |-> "bad"],
   [k |-> "url", url |-> CursorUrl(0)], [k |-> "url", url |-> CursorUrl(1)],
   [k |-> "url", url |-> CursorUrl(2)],
   [k |-> "url", url |-> [CursorUrl(0) EXCEPT !.host = "cdn.example.net"]]}

\* if (json.next_url)
NextUrlTruthy(v) == v.k \in {"bad", "url"}

(***************************************************************************)
(* Expiration selector                                                     *)
(***************************************************************************)
MAX_EXPIRATIONS == 10

rowExpiration(row) == Get(Get(row, K.details), K.expiration_date)

\* rows.flatMap(row => typeof expiration === "string" ? [expiration] : [])
RECURSIVE expirationCandidates(_)
expirationCandidates(rs) ==
  IF rs = <<>> THEN <<>>
  ELSE (IF rowExpiration(Head(rs)).t = "str"
          THEN <<rowExpiration(Head(rs)).s>> ELSE <<>>)
       \o expirationCandidates(Tail(rs))

\* A faulty variant of the date filter that drops today's expirations.
keepAfterToday(date, asOf) == StrLess(asOf, date)

\* candidates.filter((date) => date >= today)
keepFromToday(date, asOf) == StrGeq(date, asOf)

\* Array.from(new Set(...)).sort(): the distinct strings in ascending order.
RECURSIVE sortStrings(_)
sortStrings(set) ==
  IF set = {} THEN <<>>
  ELSE LET least == CHOOSE x \in set : \A y \in set : y = x \/ StrLess(x, y)
       IN <<least>> \o sortStrings(set \ {least})

\* .slice(0, 10)
sliceExpirations(sorted) ==
  SubSeq(sorted, 1, IF Len(sorted) < MAX_EXPIRATIONS THEN Len(sorted)
                    ELSE MAX_EXPIRATIONS)

validExpirations(rs, asOf) ==
  LET candidates == expirationCandidates(rs)
      kept == {candidates[i] : i \in {j \in 1..Len(candidates) :
                                        keepFromToday(candidates[j], asOf)}}
  IN sliceExpirations(sortStrings(kept))

Includes(seq, x) == \E i \in 1..Len(seq) : seq[i] = x

\* A faulty variant of the selection that keeps every row.
selectEveryRow(rs, valid) == rs

\* rows.filter(row => expiration_date && validExpirations.includes(...))
RECURSIVE selectRows(_, _)
selectRows(rs, valid) ==
  IF rs = <<>> THEN <<>>
  ELSE (IF /\ Truthy(rowExpiration(Head(rs)))
           /\ rowExpiration(Head(rs)).t = "str"
           /\ Includes(valid, rowExpiration(Head(rs)).s)
          THEN <<Head(rs)>> ELSE <<>>)
       \o selectRows(Tail(rs), valid)

(***************************************************************************)
(* Contract valuation                                                      *)
(***************************************************************************)
Max(a, b) == IF a >= b THEN a ELSE b

\* Drafts that read the quote aliases, mid/mark and the day close.
WideDrafts == {"p001", "p002", "r2"}

quoteBid(d, row) ==
  LET q == Get(row, K.last_quote) IN
  IF d \in WideDrafts THEN firstNumber(d, <<Get(q, K.bid), Get(q, K.bid_price)>>)
  ELSE parseNumberOf(d, Get(q, K.bid))

quoteAsk(d, row) ==
  LET q == Get(row, K.last_quote) IN
  IF d \in WideDrafts THEN firstNumber(d, <<Get(q, K.ask), Get(q, K.ask_price)>>)
  ELSE parseNumberOf(d, Get(q, K.ask))

quoteMid(d, row) ==
  LET q == Get(row, K.last_quote) IN
  IF d \in WideDrafts
    THEN firstNumber(d, <<Get(q, K.mid), Get(q, K.midpoint),
                          Get(q, K.mark), Get(q, K.mark_price)>>)
    ELSE Null

rowLastTrade(d, row) == parseNumberOf(d, Get(Get(row, K.last_trade), K.price))

rowDayClose(d, row) ==
  LET day == Get(row, K.day) IN
  IF d \in WideDrafts
    THEN firstNumber(d, <<Get(day, K.close), Get(day, K.c), Get(day, K.last),
                          Get(day, K.price), Get(day, K.last_price)>>)
    ELSE Null

\* (bid + ask) / 2
midpoint(bid, ask) == (bid + ask) \div 2

\* The if / else-if chain that chooses the premium; Null when none applies.
premiumFrom(bid, ask, mid, lastTrade, dayClose, breakEvenFromApi, strike) ==
  IF bid.t # "null" /\ ask.t # "null" THEN Num(midpoint(bid.n, ask.n))
  ELSE IF mid.t # "null" THEN mid
  ELSE IF lastTrade.t # "null" THEN lastTrade
  ELSE IF dayClose.t # "null" THEN dayClose
  ELSE IF breakEvenFromApi.t # "null" THEN Num(breakEvenFromApi.n - strike)
  ELSE Null

\* The premium of a row: the chain applied to the fields the draft reads.
selectPremium(d, row, strike) ==
  premiumFrom(quoteBid(d, row), quoteAsk(d, row), quoteMid(d, row),
              rowLastTrade(d, row), rowDayClose(d, row),
              parseNumberOf(d, Get(row, K.break_even_price)), strike)

\* if (premium === null || !Number.isFinite(premium) [|| premium < 0]) return;
premiumRejected(d, premium) ==
  premium.t = "null" \/ (d = "r2" /\ premium.n < 0)

\* A faulty variant of the intrinsic value without the floor at zero.
intrinsicUnfloored(spot, strike) == spot - strike

\* Math.max(spotForIntrinsic - strike, 0)
intrinsicOf(spot, strike) == Max(spot - strike, 0)

\* Math.max(premium - intrinsic, 0)
extrinsicOf(premium, intrinsic) == Max(premium - intrinsic, 0)

\* row.details?.ticker?.trim() || ticker
optionTicker(row, tk) ==
  LET own == Get(Get(row, K.details), K.ticker) IN
  IF own.t = "str" /\ Trim(own.s) # <<>> THEN Trim(own.s) ELSE tk

\* A faulty variant of the push whose 3x target adds the premium twice.
optionPointShortTarget(row, tk, spot, strike, premium, breakEvenFromApi, expiration) ==
  [ticker |-> optionTicker(row, tk),
   strike |-> strike,
   expiration |-> IF Truthy(expiration) THEN expiration.s ELSE <<>>,
   premium |-> premium,
   intrinsic |-> intrinsicOf(spot, strike),
   extrinsic |-> extrinsicOf(premium, intrinsicOf(spot, strike)),
   breakEven |-> IF breakEvenFromApi.t # "null" THEN breakEvenFromApi.n
                 ELSE strike + premium,
   target2x |-> strike + 2 * premium,
   target3x |-> strike + 2 * premium]

\* options.push({...}) for a row whose strike and premium are numbers.
optionPoint(row, tk, spot, strike, premium, breakEvenFromApi, expiration) ==
  [ticker |-> optionTicker(row, tk),
   strike |-> strike,
   expiration |-> IF Truthy(expiration) THEN expiration.s ELSE <<>>,
   premium |-> premium,
   intrinsic |-> intrinsicOf(spot, strike),
   extrinsic |-> extrinsicOf(premium, intrinsicOf(spot, strike)),
   breakEven |-> IF breakEvenFromApi.t # "null" THEN breakEvenFromApi.n
                 ELSE strike + premium,
   target2x |-> strike + 2 * premium,
   target3x |-> strike + 3 * premium]

\* The premium check and the push, for a row whose strike parsed.
valuatePriced(d, row, tk, spot, strike, premium) ==
  IF premiumRejected(d, premium) THEN <<>>
  ELSE <<optionPoint(row, tk, spot, strike, premium.n,
                     parseNumberOf(d, Get(row, K.break_even_price)),
                     rowExpiration(row))>>

\* The strike check, then the premium selection.
valuateStruck(d, row, tk, spot, strike) ==
  IF strike.t = "null" THEN <<>>
  ELSE valuatePriced(d, row, tk, spot, strike.n,
                     selectPremium(d, row, strike.n))

\* One pass of selected.forEach: the option pushed for the row, if any.
valuate(d, row, tk, spot) ==
  valuateStruck(d, row, tk, spot,
                parseNumberOf(d, Get(Get(row, K.details), K.strike_price)))

RECURSIVE valuateAll(_, _, _, _)
valuateAll(d, selected, tk, spot) ==
  IF selected = <<>> THEN <<>>
  ELSE valuate(d, Head(selected), tk, spot)
       \o valuateAll(d, Tail(selected), tk, spot)

\* The success payload: price, expirations and valued options.
payloadBody(d, price, valid, options) ==
  IF d = "r2"
    THEN [underlyingSpot |-> price, expirations |-> valid, options |-> options]
    ELSE [underlyingPrice |-> price, expirations |-> valid, options |-> options]

\* const spotForIntrinsic = underlyingPrice ?? 0
spotForIntrinsic(price) == IF price.t = "null" THEN 0 ELSE price.n

\* The selection and valuation of the rows under the valid expirations.
payloadFor(d, rs, price, tk, valid) ==
  payloadBody(d, price, valid,
              valuateAll(d, selectRows(rs, valid), tk, spotForIntrinsic(price)))

buildPayload(d, rs, price, tk, asOf) ==
  payloadFor(d, rs, price, tk, validExpirations(rs, asOf))

(***************************************************************************)
(* Upstream data the provider may serve (bounded)                          *)
(***************************************************************************)

DatePrefix == <<"2", "0", "2", "6", "-", "1", "1", "-">>

Date(d1, d2) == DatePrefix \o <<d1, d2>>

\* new Date().toISOString().slice(0, 10) at the time the response is built.
TodayValues == {Date("0", "3"), Date("1", "0")}

MkRow(ct, exp, strike, quote, trade, day, be, ua) ==
  MkObj(<<
    <<K.details, MkObj(<< <<K.contract_type, ct>>, <<K.expiration_date, exp>>,
                          <<K.strike_price, strike>> >>)>>,
    <<K.break_even_price, be>>,
    <<K.last_quote, quote>>,
    <<K.last_trade, trade>>,
    <<K.underlying_asset, ua>>,
    <<K.day, day>> >>)

Quote(bid, ask) == MkObj(<< <<K.bid, bid>>, <<K.ask, ask>> >>)

Priced(key, v) == MkObj(<< <<key, v>> >>)

\* Snapshots of the underlying: an explicit field, a nested explicit field, a
\* string that only the sanitising parseNumber reads, a price under a key no
\* draft names (found by the recursive scan only), and one with no price.
snapTrade == Priced(K.last_trade, Priced(K.price, Num(12)))
snapDayAndTrade ==
  MkObj(<< <<K.day, Priced(K.close, Num(14))>>,
           <<K.last_trade, Priced(K.price, Num(13))>> >>)
snapDollar == Priced(K.price, Str(<<"$", "1", "1">>))
snapNested == Priced(K.session, Priced(K.price, Num(15)))
snapEmpty == Priced(K.ticker, Str(<<"A", "B">>))

PageSnapshots == {Undef, snapTrade, snapNested, snapEmpty}

\* Contract rows of the paging family.
rowPlain ==
  MkRow(Str(K.call), Str(Date("0", "5")), Num(10), Quote(Num(2), Num(4)),
        Undef, Undef, Undef, snapDollar)
rowPriced ==
  MkRow(Str(<<"C", "a", "L", "L">>), Str(Date("1", "0")), Str(<<"2", "0">>), Quote(Num(6), Undef),
        Priced(K.price, Num(7)), Undef, Undef, snapDayAndTrade)
rowPut ==
  MkRow(Str(<<"p", "u", "t">>), Str(Date("0", "5")), Num(10), Quote(Num(2), Num(4)),
        Undef, Undef, Undef, snapTrade)
rowDayOnly ==
  MkRow(Str(K.call), Str(Date("2", "0")), Num(30), Undef,
        Undef, Priced(K.close, Num(3)), Undef, snapNested)

PagingRows == {rowPlain, rowPriced, rowPut, rowDayOnly}

\* Contract rows of the valuation family: every combination of the fields the
\* premium chain reads, under the first key of each alias list or under a
\* later one.
ValQuote(bid, ask, mid, alias) ==
  IF alias
    THEN MkObj(<< <<K.bid_price, bid>>, <<K.ask_price, ask>>, <<K.mark, mid>> >>)
    ELSE MkObj(<< <<K.bid, bid>>, <<K.ask, ask>>, <<K.mid, mid>> >>)

ValDay(close, alias) ==
  IF close.t = "undef" THEN Undef
  ELSE IF alias THEN Priced(K.last, close) ELSE Priced(K.close, close)


ValuationRows ==
  {MkRow(Str(K.call), Str(Date("2", "0")), x[1],
         ValQuote(x[2], x[3], x[4], x[9]),
         IF x[5].t = "undef" THEN Undef ELSE Priced(K.price, x[5]),
         ValDay(x[6], x[9]), x[7], x[8]) :
     x \in {Num(10), Str(<<"2", "0">>), Str(<<"N", "/", "A">>)}   \* strike
           \X {Undef, Num(2)}                                    \* bid
           \X {Undef, Num(4)}                                    \* ask
           \X {Undef, Num(5)}                                    \* mid
           \X {Undef, Num(7)}                                    \* last trade
           \X {Undef, Num(1)}                                    \* day close
           \X {Undef, Num(8), Num(40)}                           \* break-even
           \X {Undef, snapTrade}                                 \* underlying
           \X BOOLEAN}                                           \* aliases

\* Contract rows of the expirations family: one priced call per date of a
\* set of dates, latest first, the latest date twice.
NumDates == 13
SubsetSlack == 2

DayString(n) == <<Digits[(n \div 10) + 1], Digits[(n % 10) + 1]>>

DateUniverse == {DatePrefix \o DayString(n) : n \in 1..NumDates}

DateSubsets ==
  {S \in SUBSET DateUniverse : Cardinality(S) >= NumDates - SubsetSlack}

Reverse(seq) == [i \in 1..Len(seq) |-> seq[Len(seq) + 1 - i]]

DatedRow(date) ==
  MkRow(Str(K.call), Str(date), Num(10), Quote(Num(2), Num(4)),
        Undef, Undef, Undef, Undef)

ExpirationRows(S) ==
  LET latestFirst == Reverse(sortStrings(S))
  IN [i \in 1..(Len(latestFirst) + 1) |->
        DatedRow(latestFirst[IF i = 1 THEN 1 ELSE i - 1])]

\* Bounds of the chain family: rows retained in all, rows per page, and the
\* number of pages the provider's chain has.
MaxRows == 2
MaxPageRows == 2
MaxChainPages == 3

SeqsUpTo(S, n) == UNION {[1..k -> S] : k \in 0..n}

Min(a, b) == IF a <= b THEN a ELSE b

\* The families of upstream data: "chain" is a short chain of pages with
\* rows and snapshots of every shape; "deep" is a chain without end whose
\* pages carry no rows; "valuation" and "expirations" are one page of the
\* rows above.
Families == {"chain", "deep", "valuation", "expirations"}

EndingCursors == {v \in NextUrlValues : v.k \in {"undef", "bad"}}

\* What a successful page response may carry: underlying_asset, results and
\* next_url.
PageBodies(fam, pg, kept) ==
  CASE fam = "chain" ->
         [underlying_asset : PageSnapshots,
          results : {Undef} \cup
            {Arr(q) : q \in SeqsUpTo(PagingRows,
                          Min(MaxPageRows, MaxRows - Len(kept)))},
          next_url : IF pg + 1 < MaxChainPages
                       THEN EndingCursors \cup
                              {[k |-> "url", url |-> CursorUrl(0)]}
                       ELSE EndingCursors]
    [] fam = "deep" ->
         [underlying_asset : {Undef, snapEmpty, snapTrade},
          results : {Undef, Arr(<<>>)},
          next_url : NextUrlValues]
    [] fam = "first" ->
         \* a chain of two pages with a price on the first
         {IF pg = 0
            THEN [underlying_asset |-> snapTrade,
                  results |-> Arr(<<rowPlain>>),
                  next_url |-> [k |-> "url", url |-> CursorUrl(1)]]
            ELSE [underlying_asset |-> Undef,
                  results |-> Arr(<<rowPriced>>),
                  next_url |-> [k |-> "undef"]]}
    [] fam = "second" ->
         \* a chain of one page without any price
         {[underlying_asset |-> snapEmpty,
           results |-> Arr(<<DatedRow(Date("1", "2")), rowPut>>),
           next_url |-> [k |-> "null"]]}
    [] fam = "valuation" ->
         [underlying_asset : {Undef},
          results : {Arr(<<r>>) : r \in ValuationRows},
          next_url : {[k |-> "undef"]}]
    [] OTHER ->
         [underlying_asset : {Undef},
          results : {Arr(ExpirationRows(S)) : S \in DateSubsets} \cup
            \* a call whose strike does not parse, alone on its date
            {Arr(<<MkRow(Str(K.call), Str(Date("0", "5")),
                         Str(<<"N", "/", "A">>), Quote(Num(2), Num(4)),
                         Undef, Undef, Undef, Undef)>>
                 \o ExpirationRows(DateUniverse \ {Date("0", "5")}))},
          next_url : {[k |-> "undef"]}]

\* Non-success responses of the provider.
UpstreamFailures ==
  {[status |-> 503, text |-> "unavailable"], [status |-> 429, text |-> "slow down"]}

NoFailure == [status |-> 0, text |-> ""]

\* Outcomes of one stock-snapshot fallback fetch: it throws, it fails, or it
\* returns a body whose results may or may not be an array of snapshots.
FallbackOutcomes ==
  {[kind |-> "throw", results |-> Undef],
   [kind |-> "notok", results |-> Undef],
   [kind |-> "ok", results |-> Undef],
   [kind |-> "ok", results |-> Arr(<<snapEmpty, snapDayAndTrade>>)]}

\* Outcomes of the quote fetch of route.ts (second draft).
QuoteBody(trade, close, prev) ==
  Priced(K.ticker,
    MkObj(<< <<K.lastTrade, Priced(K.p, trade)>>, <<K.day, Priced(K.c, close)>>,
             <<K.prevDay, Priced(K.c, prev)>> >>))

QuoteOutcomes ==
  {[ok |-> FALSE, json |-> Undef],
   [ok |-> TRUE, json |-> MkObj(<<>>)],
   [ok |-> TRUE, json |-> QuoteBody(Num(0), Undef, Num(0))],
   [ok |-> TRUE, json |-> QuoteBody(Num(12), Num(14), Num(11))],
   [ok |-> TRUE, json |-> QuoteBody(Num(0), Num(14), Num(11))],
   [ok |-> TRUE, json |-> QuoteBody(Undef, Str(<<"N", "/", "A">>), Num(11))],
   [ok |-> TRUE, json |-> QuoteBody(Num(-3), Null, Undef)],
   [ok |-> TRUE, json |-> Priced(K.ticker, Null)]}

\* Request inputs: the ticker query parameter and MASSIVE_API_KEY.
ValidTicker == Str(<<" ", "a", "/", "B", " ">>)

TickerValues == {Null, Str(<<>>), Str(<<" ", " ">>), ValidTicker}

ApiKeyValues == {Undef, Str(<<>>), Str(<<"k", "e", "y">>)}

(***************************************************************************)
(* The GET handler                                                         *)
(***************************************************************************)
MAX_PAGES == 15
ROW_UNDERLYING_LOG_LIMIT == 5

VARIABLES
  draft,                \* which draft of the handler serves the request
  family,               \* which family of upstream data the provider serves
  rawTicker,            \* searchParams.get("ticker")
  apiKey,               \* process.env.MASSIVE_API_KEY
  pc,                   \* "start", "awaitQuote", "awaitPage", "awaitFallback", "done"
  ticker,
  nextUrl,
  page,
  rows,
  underlyingPrice,
  rowUnderlyingDebugs,
  attempt,              \* index of the fallback attempt in flight (1-based)
  response,             \* the NextResponse returned, once there is one
  pageFetches,          \* history: options-chain page requests issued
  stockFetches,         \* history: stock quote / snapshot requests issued
  lastRequest,          \* history: URL of the latest upstream request
  today,                \* the request-time date, once the response is built
  failure,              \* history: the non-success page response received
  priceSource,          \* history: where underlyingPrice was read from
  lastCursor,           \* history: next_url of the latest successful page
  arg,                  \* history: the helper applied last, by name, and its argument
  out,                  \* history: the value that application returned
  state,                \* HomePage: the FetchState {data, loading, error}
  calls,                \* HomePage: the fetchChain calls issued, in order
  parked                \* the locals of a second request, suspended at an await

vars ==
  <<draft, family, rawTicker, apiKey, pc, ticker, nextUrl, page, rows,
    underlyingPrice, rowUnderlyingDebugs, attempt, response, pageFetches,
    stockFetches, lastRequest, today, failure, priceSource, lastCursor,
    arg, out, state, calls, parked>>

\* No second request.
NoRequest == [pc |-> "none"]

\* useState<FetchState>({data: null, loading: false, error: null})
InitialFetchState == [data |-> Null, loading |-> FALSE, error |-> Null]

NoResponse == [status |-> 0]

Init ==
  /\ draft \in Drafts
  /\ family \in Families
  /\ rawTicker \in (IF family = "deep" THEN TickerValues ELSE {ValidTicker})
  /\ apiKey \in (IF family = "deep" THEN ApiKeyValues
                 ELSE {Str(<<"k", "e", "y">>)})
  /\ pc = "start"
  /\ ticker = <<>>
  /\ nextUrl = NoUrl
  /\ page = 0
  /\ rows = <<>>
  /\ underlyingPrice = Null
  /\ rowUnderlyingDebugs = 0
  /\ attempt = 0
  /\ response = NoResponse
  /\ pageFetches = 0
  /\ stockFetches = 0
  /\ lastRequest = NoUrl
  /\ today = <<>>
  /\ failure = NoFailure
  /\ priceSource = "none"
  /\ lastCursor = [k |-> "none"]
  /\ arg = [fn |-> "none"]
  /\ out = Undef
  /\ state = InitialFetchState
  /\ calls = <<>>
  /\ parked = NoRequest

\* A faulty variant of the ticker normalisation that keeps the case.
normalizeTickerKeepCase(raw) == Trim(raw)

\* rawTicker.trim().toUpperCase()
normalizeTicker(raw) == ToUpperCase(Trim(raw))

\* The validation at the head of GET: the error response, or none.
validate(raw, key) ==
  IF ~Truthy(raw)
    THEN [status |-> 400, body |-> [message |-> "Missing ticker parameter"]]
  ELSE IF normalizeTicker(raw.s) = <<>>
    THEN [status |-> 400, body |-> [message |-> "Ticker cannot be empty"]]
  ELSE IF ~Truthy(key)
    THEN [status |-> 500, body |-> [message |-> "MASSIVE_API_KEY is not configured"]]
  ELSE NoResponse

\* A faulty variant of the loop condition without the page ceiling.
loopWhileCursor(pg, url) == url # NoUrl

\* A faulty variant of the loop condition that admits one page too many.
loopContinuesInclusive(pg, url) == pg <= MAX_PAGES /\ url # NoUrl

\* for (...; page < MAX_PAGES && nextUrl; ...)
loopContinues(pg, url) == pg < MAX_PAGES /\ url # NoUrl

Reject ==
  /\ pc = "start"
  /\ validate(rawTicker, apiKey) # NoResponse
  /\ response' = validate(rawTicker, apiKey)
  /\ pc' = "done"
  /\ UNCHANGED <<parked, state, calls, arg, out, lastCursor, draft, family, rawTicker, apiKey, ticker, nextUrl, page, rows,
                 underlyingPrice, rowUnderlyingDebugs, attempt, pageFetches,
                 stockFetches, lastRequest, today, failure, priceSource>>

\* A valid request in a draft that starts with the options chain: the first
\* page is requested.
StartChain ==
  /\ pc = "start"
  /\ validate(rawTicker, apiKey) = NoResponse
  /\ draft # "r2"
  /\ ticker' = normalizeTicker(rawTicker.s)
  /\ nextUrl' = initialUrl(ticker')
  /\ lastRequest' = nextUrl'
  /\ pageFetches' = 1
  /\ pc' = "awaitPage"
  /\ UNCHANGED <<parked, state, calls, arg, out, lastCursor, draft, family, rawTicker, apiKey, page, rows, underlyingPrice,
                 rowUnderlyingDebugs, attempt, response, stockFetches, today,
                 failure, priceSource>>

\* route.ts, second draft: the stock quote is requested first.
StartQuote ==
  /\ pc = "start"
  /\ validate(rawTicker, apiKey) = NoResponse
  /\ draft = "r2"
  /\ ticker' = normalizeTicker(rawTicker.s)
  /\ lastRequest' = quoteUrl(ticker')
  /\ stockFetches' = 1
  /\ pc' = "awaitQuote"
  /\ UNCHANGED <<parked, state, calls, arg, out, lastCursor, draft, family, rawTicker, apiKey, nextUrl, page, rows,
                 underlyingPrice, rowUnderlyingDebugs, attempt, response,
                 pageFetches, today, failure, priceSource>>

\* fetchUnderlyingQuote: null on a non-success status.
quoteSpot(outcome) ==
  IF outcome.ok THEN getUnderlyingSpotFromQuote(outcome.json) ELSE Null

\* What the quote fetch leaves in the history of helper applications:
\* getUnderlyingSpotFromQuote is applied to the body of a success response.
quoteCall(outcome, before) ==
  IF outcome.ok
    THEN [fn |-> "getUnderlyingSpotFromQuote", value |-> outcome.json]
    ELSE before

QuoteMissing ==
  /\ pc = "awaitQuote"
  /\ \E outcome \in QuoteOutcomes :
       /\ quoteSpot(outcome).t = "null"
       /\ arg' = quoteCall(outcome, arg)
       /\ out' = IF outcome.ok THEN quoteSpot(outcome) ELSE out
       /\ response' =
            [status |-> 404,
             body |-> [message |->
                         <<"Could not retrieve underlying stock quote for ",
                           ticker, ". The symbol may be invalid.">>]]
  /\ pc' = "done"
  /\ UNCHANGED <<parked, state, calls, lastCursor, draft, family, rawTicker, apiKey, ticker, nextUrl, page, rows,
                 underlyingPrice, rowUnderlyingDebugs, attempt, pageFetches,
                 stockFetches, lastRequest, today, failure, priceSource>>

QuoteFound ==
  /\ pc = "awaitQuote"
  /\ \E outcome \in QuoteOutcomes :
       /\ quoteSpot(outcome).t # "null"
       /\ arg' = quoteCall(outcome, arg)
       /\ out' = quoteSpot(outcome)
       /\ underlyingPrice' = quoteSpot(outcome)
  /\ priceSource' = "quote"
  /\ nextUrl' = initialUrl(ticker)
  /\ lastRequest' = nextUrl'
  /\ pageFetches' = 1
  /\ pc' = "awaitPage"
  /\ UNCHANGED <<parked, state, calls, lastCursor, draft, family, rawTicker, apiKey, ticker, page, rows,
                 rowUnderlyingDebugs, attempt, response, stockFetches, today,
                 failure>>

\* The body of the 502 response to a failed page fetch.
pageFailureBody(d, f) ==
  CASE d = "p000" ->
         [message |-> "Failed to fetch Massive snapshot", details |-> f.text]
    [] d = "r2" ->
         [message |-> "Failed to fetch options chain snapshot",
          statusCode |-> f.status, details |-> f.text]
    [] OTHER ->
         [message |-> "Failed to fetch Massive snapshot",
          statusCode |-> f.status, details |-> f.text]

PageFailure ==
  /\ pc = "awaitPage"
  /\ \E f \in UpstreamFailures :
       /\ failure' = f
       /\ response' = [status |-> 502, body |-> pageFailureBody(draft, f)]
  /\ pc' = "done"
  /\ UNCHANGED <<parked, state, calls, arg, out, lastCursor, draft, family, rawTicker, apiKey, ticker, nextUrl, page, rows,
                 underlyingPrice, rowUnderlyingDebugs, attempt, pageFetches,
                 stockFetches, lastRequest, today, priceSource>>

\* A faulty variant of the filter that accepts every typed contract.
isTyped(row) == Get(Get(row, K.details), K.contract_type).t = "str"

\* row.details?.contract_type?.toLowerCase() === "call"
isCall(row) ==
  LET ct == Get(Get(row, K.details), K.contract_type) IN
  ct.t = "str" /\ ToLowerCase(ct.s) = K.call

\* A faulty variant of the guard that consults every row's underlying.
rowPriceAlwaysWanted(price) == price.t \in {"null", "num"}

\* if (underlyingPrice === null) before a row's underlying is consulted
rowPriceWanted(price) == price.t = "null"

\* A faulty variant of the row pass in which the log counter, once at its
\* limit, stops rows from being retained.
pushRowWhileLogging(d, row, st, wanted, candidate) ==
  [rows |-> IF st.debugs < ROW_UNDERLYING_LOG_LIMIT
              THEN Append(st.rows, row) ELSE st.rows,
   price |-> IF wanted /\ candidate.t # "null" THEN candidate ELSE st.price,
   source |-> IF wanted /\ candidate.t # "null" THEN "row" ELSE st.source,
   debugs |-> st.debugs]

\* One pass of pageRows.forEach over a row, on the loop's local state
\* [rows, price, source, debugs].
\* The row is pushed; candidate is the price read from it where one was
\* wanted, and the miss is counted where the draft logs it.
pushRow(d, row, st, wanted, candidate) ==
  [rows |-> Append(st.rows, row),
   price |-> IF wanted /\ candidate.t # "null" THEN candidate ELSE st.price,
   source |-> IF wanted /\ candidate.t # "null" THEN "row" ELSE st.source,
   debugs |-> IF /\ wanted
                 /\ candidate.t = "null"
                 /\ d \in {"p001", "p002"}
                 /\ Truthy(Get(row, K.underlying_asset))
                 /\ st.debugs < ROW_UNDERLYING_LOG_LIMIT
              THEN st.debugs + 1 ELSE st.debugs]

processRow(d, row, st) ==
  IF ~isCall(row) THEN st
  ELSE pushRow(d, row, st, rowPriceWanted(st.price),
               pickUnderlyingFromRow(d, row))

RECURSIVE processRows(_, _, _)
processRows(d, pageRows, st) ==
  IF pageRows = <<>> THEN st
  ELSE processRows(d, Tail(pageRows), processRow(d, Head(pageRows), st))

\* json.results.filter(r => ... === "call") of route.ts (second draft)
RECURSIVE filterCalls(_)
filterCalls(pageRows) ==
  IF pageRows = <<>> THEN <<>>
  ELSE (IF isCall(Head(pageRows)) THEN <<Head(pageRows)>> ELSE <<>>)
       \o filterCalls(Tail(pageRows))

\* if (underlyingPrice === null) { pickUnderlyingPrice(json.underlying_asset) }
withPagePrice(st, candidate) ==
  IF candidate.t # "null"
    THEN [st EXCEPT !.price = candidate, !.source = "page"]
    ELSE st

pagePrice(d, snapshot, st) ==
  IF st.price.t # "null" THEN st
  ELSE withPagePrice(st, pickFromPage(d, snapshot))

\* The cursor handling at the foot of the loop body: the next URL, or NoUrl;
\* threw is set where new URL() throws outside a try block.
nextCursor(d, next) ==
  IF ~NextUrlTruthy(next) THEN [url |-> NoUrl, threw |-> FALSE]
  ELSE IF next.k = "bad" THEN [url |-> NoUrl, threw |-> d = "r2"]
  ELSE [url |-> ensureApiKey(next.url), threw |-> FALSE]

\* The loop body after a successful page response.
pageBody(d, body, st) ==
  LET pageRows == IF body.results.t = "arr" THEN body.results.a ELSE <<>>
      afterRows ==
        IF d = "r2"
          THEN [st EXCEPT !.rows = st.rows \o filterCalls(pageRows)]
          ELSE processRows(d, pageRows, pagePrice(d, body.underlying_asset, st))
  IN [st |-> afterRows, next |-> nextCursor(d, body.next_url)]

LoopState ==
  [rows |-> rows, price |-> underlyingPrice, source |-> priceSource,
   debugs |-> rowUnderlyingDebugs]

\* A faulty variant of the guard that invokes the fallback after every chain.
fallbackAlways(d, price) == d = "p002"

\* if (underlyingPrice === null) { ... fetchUnderlyingFallback(...) }
fallbackWanted(d, price) == d = "p002" /\ price.t = "null"

\* The success response.
success(d, rs, price, tk, asOf) ==
  [status |-> 200, body |-> buildPayload(d, rs, price, tk, asOf)]

\* A page arrives with a success status: the loop body runs, and then either
\* new URL() throws (route.ts, second draft, which has no try block: the
\* framework answers 500), or the next page is requested, or the loop ends and
\* part_002 requests the first stock snapshot, or the response is built.
PageSuccess ==
  /\ pc = "awaitPage"
  /\ \E body \in PageBodies(family, page, rows) :
     \E r \in {pageBody(draft, body, LoopState)} :
       /\ rows' = r.st.rows
       /\ lastCursor' = body.next_url
       /\ \/ /\ r.next.threw
             /\ response' =
                  [status |-> 500, body |-> [message |-> "Internal Server Error"]]
             /\ pc' = "done"
             /\ UNCHANGED <<nextUrl, page, underlyingPrice, rowUnderlyingDebugs,
                            attempt, pageFetches, stockFetches, lastRequest,
                            today, priceSource>>
          \/ /\ ~r.next.threw
             /\ underlyingPrice' = r.st.price
             /\ priceSource' = r.st.source
             /\ rowUnderlyingDebugs' = r.st.debugs
             /\ nextUrl' = r.next.url
             /\ page' = page + 1
             /\ \/ /\ loopContinues(page + 1, r.next.url)
                   /\ lastRequest' = r.next.url
                   /\ pageFetches' = pageFetches + 1
                   /\ UNCHANGED <<pc, attempt, response, stockFetches, today>>
                \/ /\ ~loopContinues(page + 1, r.next.url)
                   /\ fallbackWanted(draft, r.st.price)
                   /\ attempt' = 1
                   /\ stockFetches' = stockFetches + 1
                   /\ lastRequest' = fallbackUrl(ticker, 1)
                   /\ pc' = "awaitFallback"
                   /\ UNCHANGED <<response, pageFetches, today>>
                \/ /\ ~loopContinues(page + 1, r.next.url)
                   /\ ~fallbackWanted(draft, r.st.price)
                   /\ today' \in TodayValues
                   /\ response' =
                        success(draft, r.st.rows, r.st.price, ticker, today')
                   /\ pc' = "done"
                   /\ UNCHANGED <<attempt, pageFetches, stockFetches,
                                  lastRequest>>
  /\ UNCHANGED <<parked, state, calls, arg, out, draft, family, rawTicker, apiKey, ticker, failure>>

\* The price one fallback response yields: the first snapshot of json.results
\* with a price; null when the fetch throws, fails or results is no array.
RECURSIVE firstSnapshotPrice(_)
firstSnapshotPrice(snapshots) ==
  IF snapshots = <<>> THEN Null
  ELSE LET candidate == pickUnderlyingPrice(Head(snapshots))
       IN IF candidate.t # "null" THEN candidate
          ELSE firstSnapshotPrice(Tail(snapshots))

fallbackPrice(outcome) ==
  IF outcome.kind = "ok" /\ outcome.results.t = "arr"
    THEN firstSnapshotPrice(outcome.results.a)
    ELSE Null

\* A fallback attempt yields nothing and another attempt is left.
FallbackRetry ==
  /\ pc = "awaitFallback"
  /\ attempt < FALLBACK_ATTEMPTS
  /\ \E outcome \in FallbackOutcomes : fallbackPrice(outcome).t = "null"
  /\ attempt' = attempt + 1
  /\ stockFetches' = stockFetches + 1
  /\ lastRequest' = fallbackUrl(ticker, attempt + 1)
  /\ UNCHANGED <<parked, state, calls, arg, out, lastCursor, draft, family, rawTicker, apiKey, pc, ticker, nextUrl, page,
                 rows, underlyingPrice, rowUnderlyingDebugs, response,
                 pageFetches, today, failure, priceSource>>

\* A fallback attempt yields a price, or the last attempt yields none: the
\* response is built.
FallbackFinish ==
  /\ pc = "awaitFallback"
  /\ \E outcome \in FallbackOutcomes :
     \E found \in {fallbackPrice(outcome)} :
       /\ found.t # "null" \/ attempt >= FALLBACK_ATTEMPTS
       /\ underlyingPrice' = found
       /\ priceSource' = IF found.t # "null" THEN "fallback" ELSE priceSource
       /\ today' \in TodayValues
       /\ response' = success(draft, rows, found, ticker, today')
  /\ pc' = "done"
  /\ UNCHANGED <<parked, state, calls, arg, out, lastCursor, draft, family, rawTicker, apiKey, ticker, nextUrl, page, rows,
                 rowUnderlyingDebugs, attempt, pageFetches, stockFetches,
                 lastRequest, failure>>

Next ==
  \/ Reject
  \/ StartChain
  \/ StartQuote
  \/ QuoteMissing
  \/ QuoteFound
  \/ PageFailure
  \/ PageSuccess
  \/ FallbackRetry
  \/ FallbackFinish

Spec == Init /\ [][Next]_vars

\* Every step of the handler is the code that runs once an awaited fetch
\* has returned (or, at the start, synchronously): when every upstream fetch
\* eventually returns, a step that is possible is eventually taken.  The
\* provider serves the chain without end, whose cursors repeat.
FairInit == Init /\ family = "deep"

FairSpec == FairInit /\ [][Next]_vars /\ WF_vars(Next)

(***************************************************************************)
(* The helpers applied on their own                                        *)
(***************************************************************************)
\* Values handed to parseNumber: absent values, numbers, numeric strings with
\* and without decoration, strings without a number, an object and an array.
ParseInputs ==
  {Undef, Null, Num(0), Num(7), Num(-3), MkObj(<<>>), Arr(<<Num(7)>>),
   Str(<<>>), Str(<<" ">>), Str(<<" ", "\t">>), Str(<<"N", "/", "A">>),
   Str(<<"-">>), Str(<<".">>), Str(<<"-", ".">>), Str(<<"+">>),
   Str(<<"$">>), Str(<<"0">>), Str(<<"1", "2">>), Str(<<" ", "8", " ">>),
   Str(<<"-", "5">>), Str(<<"+", "4">>), Str(<<"6", ".", "0">>),
   Str(<<"$", "1", "1">>), Str(<<"1", ",", "0", "0", "0">>),
   Str(<<"9", " ", "U", "S", "D">>), Str(<<"1", "-", "2">>)}

\* Snapshots handed to the resolver: absent and empty ones, prices under
\* explicit fields, under keys only the scan finds, under excluded keys,
\* inside arrays, and strings without a number.
SnapshotInputs ==
  {Undef, Null, MkObj(<<>>), snapEmpty, snapTrade, snapDayAndTrade, snapDollar,
   snapNested, Priced(K.strike, Arr(<<Num(100)>>)),
   Priced(K.ticker, Arr(<<Num(7)>>)), Priced(K.strike, Priced(K.price, Num(5))),
   Priced(K.premium, Num(3)), Priced(K.strike_price, Num(50)),
   Priced(K.c, Num(9)), Priced(ToUpperCase(K.last), Num(8)),
   Priced(K.day, Priced(K.last, Num(5))),
   Priced(K.last_quote, Priced(K.midpoint, Num(6))),
   Priced(K.price, Str(<<"N", "/", "A">>)),
   Priced(K.trade, Arr(<<Str(<<"-">>), Num(4)>>)),
   MkObj(<< <<K.option, Priced(K.strike, Num(60))>>,
            <<K.session, Priced(K.bid, Str(<<"1", "6">>))>> >>)}

\* The pickUnderlyingPrice of a draft, on the snapshot of an underlying
\* (part_000's takes the row that holds the snapshot).
pickUnderlyingPriceOf(d, snapshot) ==
  IF d = "p000"
    THEN pickUnderlyingPrice000(MkObj(<< <<K.underlying_asset, snapshot>> >>))
    ELSE pickFromPage(d, snapshot)

\* The helper applications a draft admits.
Calls(d) ==
  [fn : {"parseNumber"}, value : ParseInputs]
  \cup (IF d # "r2"
          THEN [fn : {"pickUnderlyingPrice"}, value : SnapshotInputs]
          ELSE {})
  \cup (IF d = "p002"
          THEN [fn : {"collectPriceCandidates"},
                value : SnapshotInputs \cup
                  \* a price 5 and 6 keys below the root, and one inside an
                  \* array 4 keys below the root
                  {Priced(K.session, Priced(K.session, Priced(K.session,
                     Priced(K.session, Priced(K.price, Num(5)))))),
                   Priced(K.session, Priced(K.session, Priced(K.session,
                     Priced(K.session, Priced(K.session,
                       Priced(K.price, Num(6))))))),
                   Priced(K.session, Priced(K.session, Priced(K.session,
                     Priced(K.trade, Arr(<<Num(4)>>)))))}]
          ELSE {})

HelperInit ==
  /\ draft \in Drafts
  /\ family = "chain"
  /\ rawTicker = ValidTicker
  /\ apiKey = Str(<<"k", "e", "y">>)
  /\ pc = "apply"
  /\ ticker = <<>>
  /\ nextUrl = NoUrl
  /\ page = 0
  /\ rows = <<>>
  /\ underlyingPrice = Null
  /\ rowUnderlyingDebugs = 0
  /\ attempt = 0
  /\ response = NoResponse
  /\ pageFetches = 0
  /\ stockFetches = 0
  /\ lastRequest = NoUrl
  /\ today = <<>>
  /\ failure = NoFailure
  /\ priceSource = "none"
  /\ lastCursor = [k |-> "none"]
  /\ arg \in Calls(draft)
  /\ out = Undef
  /\ state = InitialFetchState
  /\ calls = <<>>
  /\ parked = NoRequest

HandlerIdle ==
  UNCHANGED <<parked, state, calls, draft, family, rawTicker, apiKey, ticker, nextUrl, page, rows,
              underlyingPrice, rowUnderlyingDebugs, attempt, response,
              pageFetches, stockFetches, lastRequest, today, failure,
              priceSource, lastCursor, arg>>

ApplyParseNumber ==
  /\ pc = "apply"
  /\ arg.fn = "parseNumber"
  /\ out' = parseNumberOf(draft, arg.value)
  /\ pc' = "applied"
  /\ HandlerIdle

ApplyPickUnderlyingPrice ==
  /\ pc = "apply"
  /\ arg.fn = "pickUnderlyingPrice"
  /\ out' = pickUnderlyingPriceOf(draft, arg.value)
  /\ pc' = "applied"
  /\ HandlerIdle

ApplyCollectPriceCandidates ==
  /\ pc = "apply"
  /\ arg.fn = "collectPriceCandidates"
  /\ out' = Arr(collectPriceCandidates(arg.value, 0))
  /\ pc' = "applied"
  /\ HandlerIdle

HelperNext ==
  \/ ApplyParseNumber
  \/ ApplyPickUnderlyingPrice
  \/ ApplyCollectPriceCandidates

HelperSpec == HelperInit /\ [][HelperNext]_vars

(***************************************************************************)
(* Two requests in one process                                             *)
(***************************************************************************)
\* The variables GET declares with const and let (part_002 lines 282-316) and
\* the histories of the request; the draft and MASSIVE_API_KEY belong to the
\* process.
requestLocals ==
  [family |-> family, rawTicker |-> rawTicker, pc |-> pc, ticker |-> ticker,
   nextUrl |-> nextUrl, page |-> page, rows |-> rows,
   underlyingPrice |-> underlyingPrice,
   rowUnderlyingDebugs |-> rowUnderlyingDebugs, attempt |-> attempt,
   response |-> response, pageFetches |-> pageFetches,
   stockFetches |-> stockFetches, lastRequest |-> lastRequest,
   today |-> today, failure |-> failure, priceSource |-> priceSource,
   lastCursor |-> lastCursor]

\* A faulty variant of the resumption in which rows is one array of the
\* module, shared by the requests.
resumeSharingRows(saved) == [saved EXCEPT !.rows = rows]

\* A suspended request resumes with the locals it was suspended with.
resume(saved) == saved

\* The running request is suspended at its await (or has not started, or has
\* returned) and the other request runs.
Switch ==
  /\ parked # NoRequest
  /\ parked' = requestLocals
  /\ \E r \in {resume(parked)} :
       /\ family' = r.family
       /\ rawTicker' = r.rawTicker
       /\ pc' = r.pc
       /\ ticker' = r.ticker
       /\ nextUrl' = r.nextUrl
       /\ page' = r.page
       /\ rows' = r.rows
       /\ underlyingPrice' = r.underlyingPrice
       /\ rowUnderlyingDebugs' = r.rowUnderlyingDebugs
       /\ attempt' = r.attempt
       /\ response' = r.response
       /\ pageFetches' = r.pageFetches
       /\ stockFetches' = r.stockFetches
       /\ lastRequest' = r.lastRequest
       /\ today' = r.today
       /\ failure' = r.failure
       /\ priceSource' = r.priceSource
       /\ lastCursor' = r.lastCursor
  /\ UNCHANGED <<draft, apiKey, arg, out, state, calls>>

\* Two requests arrive: one for the first chain and one, whose ticker may be
\* missing, for the second.
PairInit ==
  /\ draft \in Drafts
  /\ apiKey = Str(<<"k", "e", "y">>)
  /\ family = "first"
  /\ rawTicker = ValidTicker
  /\ pc = "start"
  /\ ticker = <<>>
  /\ nextUrl = NoUrl
  /\ page = 0
  /\ rows = <<>>
  /\ underlyingPrice = Null
  /\ rowUnderlyingDebugs = 0
  /\ attempt = 0
  /\ response = NoResponse
  /\ pageFetches = 0
  /\ stockFetches = 0
  /\ lastRequest = NoUrl
  /\ today = <<>>
  /\ failure = NoFailure
  /\ priceSource = "none"
  /\ lastCursor = [k |-> "none"]
  /\ arg = [fn |-> "none"]
  /\ out = Undef
  /\ state = InitialFetchState
  /\ calls = <<>>
  /\ \E other \in {Null, Str(<<"m", "s", "f", "t">>)} :
       parked = [requestLocals EXCEPT !.family = "second", !.rawTicker = other]

PairNext ==
  \/ Next
  \/ Switch

PairSpec == PairInit /\ [][PairNext]_vars

(***************************************************************************)
(* The HomePage component: fetchChain calls and their responses            *)
(***************************************************************************)
\* Bound: the fetchChain calls one mounted page issues.
MaxCalls == 3

defaultTicker == <<"A", "A", "P", "L">>

\* What the ticker input may hold when the form is submitted.
TickerInputs == {<<>>, <<" ">>, defaultTicker, <<"m", "s", "f", "t">>}

\* How a request to /api/options ends for the page: a success payload, a
\* non-success status, or fetch throwing.
ApiOutcomes == {"ok", "notok", "throw"}

\* The state fetchChain sets when its request ends.
settledState(call, outcome) ==
  CASE outcome = "ok" ->
         [data |-> [ticker |-> call.ticker], loading |-> FALSE, error |-> Null]
    [] outcome = "notok" ->
         [data |-> Null, loading |-> FALSE, error |-> Str("Failed to load options.")]
    [] OTHER ->
         [data |-> Null, loading |-> FALSE, error |-> Str("Failed to fetch")]

\* fetchChain up to its await: an empty ticker sets the error on the previous
\* state and returns; otherwise the loading state is set and the request is
\* in flight.
fetchChain(tickerArg) ==
  /\ Len(calls) < MaxCalls
  /\ IF normalizeTicker(tickerArg) = <<>>
       THEN /\ state' = [state EXCEPT !.error = Str("Please enter a ticker.")]
            /\ calls' = Append(calls, [ticker |-> <<>>, status |-> "refused"])
       ELSE /\ state' = [data |-> Null, loading |-> TRUE, error |-> Null]
            /\ calls' = Append(calls, [ticker |-> normalizeTicker(tickerArg),
                                       status |-> "pending"])
  /\ UNCHANGED <<pc, out, parked>>
  /\ UNCHANGED <<draft, family, rawTicker, apiKey, ticker, nextUrl, page, rows,
                 underlyingPrice, rowUnderlyingDebugs, attempt, response,
                 pageFetches, stockFetches, lastRequest, today, failure,
                 priceSource, lastCursor, arg>>

\* useEffect(() => { fetchChain(defaultTicker) }, [fetchChain])
Mount ==
  /\ calls = <<>>
  /\ fetchChain(defaultTicker)

\* handleSubmit: fetchChain(tickerInput); the button is never disabled.
handleSubmit ==
  /\ calls # <<>>
  /\ \E tickerInput \in TickerInputs : fetchChain(tickerInput)

\* The request of a call ends and the rest of fetchChain runs.
ResponseArrives ==
  /\ \E i \in DOMAIN calls :
     \E outcome \in ApiOutcomes :
       /\ calls[i].status = "pending"
       /\ state' = settledState(calls[i], outcome)
       /\ calls' = [calls EXCEPT ![i].status = outcome]
  /\ UNCHANGED <<pc, out, parked>>
  /\ UNCHANGED <<draft, family, rawTicker, apiKey, ticker, nextUrl, page, rows,
                 underlyingPrice, rowUnderlyingDebugs, attempt, response,
                 pageFetches, stockFetches, lastRequest, today, failure,
                 priceSource, lastCursor, arg>>

UIInit ==
  /\ draft = "p002"
  /\ family = "chain"
  /\ rawTicker = ValidTicker
  /\ apiKey = Str(<<"k", "e", "y">>)
  /\ pc = "page"
  /\ ticker = <<>>
  /\ nextUrl = NoUrl
  /\ page = 0
  /\ rows = <<>>
  /\ underlyingPrice = Null
  /\ rowUnderlyingDebugs = 0
  /\ attempt = 0
  /\ response = NoResponse
  /\ pageFetches = 0
  /\ stockFetches = 0
  /\ lastRequest = NoUrl
  /\ today = <<>>
  /\ failure = NoFailure
  /\ priceSource = "none"
  /\ lastCursor = [k |-> "none"]
  /\ arg = [fn |-> "none"]
  /\ out = Undef
  /\ state = InitialFetchState
  /\ calls = <<>>
  /\ parked = NoRequest

UINext ==
  \/ Mount
  \/ handleSubmit
  \/ ResponseArrives

UISpec == UIInit /\ [][UINext]_vars

(***************************************************************************)
(* Properties                                                              *)
(***************************************************************************)
IsSuccess == pc = "done" /\ response.status = 200

\* The price field of a success body, whichever name the draft gives it.
ResponsePrice ==
  IF "underlyingSpot" \in DOMAIN response.body
    THEN response.body.underlyingSpot
    ELSE response.body.underlyingPrice

ResponseSpot == IF ResponsePrice.t = "null" THEN 0 ELSE ResponsePrice.n

ResponseOptions == response.body.options

ResponseExpirations == response.body.expirations

\* C1: one request issues at most 15 options-chain page fetches, whatever the
\* provider answers, also when every page carries a usable next_url.
C1_PageCeiling == pageFetches <= 15

\* The 15th page arrived with a usable next_url and the response was built
\* without a 16th fetch.
C1_Witness ==
  IsSuccess /\ pageFetches = 15 /\ page = 15 /\ nextUrl # NoUrl

\* C2: a page fetch that returns a non-success status ends the request with
\* HTTP 502, whose body carries the upstream status code and the upstream
\* body and no options, expirations or price.
C2_FailureSurfaced ==
  failure # NoFailure =>
    /\ pc = "done"
    /\ response.status = 502
    /\ "statusCode" \in DOMAIN response.body
    /\ response.body.statusCode = failure.status
    /\ response.body.details = failure.text
    /\ DOMAIN response.body \cap
         {"options", "expirations", "underlyingPrice", "underlyingSpot"} = {}

\* C3: once underlyingPrice is non-null it never changes again, and a success
\* response returns that value and computes every intrinsic value from it.
C3_WriteOnce ==
  /\ [][underlyingPrice # Null => underlyingPrice' = underlyingPrice]_vars
  /\ [](IsSuccess =>
          /\ ResponsePrice = underlyingPrice
          /\ \A i \in DOMAIN ResponseOptions :
               ResponseOptions[i].intrinsic =
                 Max((IF underlyingPrice.t = "null" THEN 0
                      ELSE underlyingPrice.n) - ResponseOptions[i].strike, 0))

\* The price came from a page snapshot, and a contract row retained afterwards
\* carries a different price of its own.
C3_Witness ==
  /\ IsSuccess
  /\ priceSource = "page"
  /\ \E i \in DOMAIN rows :
       /\ pickUnderlyingFromRow(draft, rows[i]).t = "num"
       /\ pickUnderlyingFromRow(draft, rows[i]) # underlyingPrice

\* C4: every option of a success response has intrinsic = max(spot - strike, 0)
\* and extrinsic = max(premium - intrinsic, 0), both non-negative, where spot
\* is the response's price, or 0 when that is null.
C4_IntrinsicExtrinsic ==
  IsSuccess =>
    \A i \in DOMAIN ResponseOptions :
      LET o == ResponseOptions[i] IN
      /\ o.intrinsic =
           (IF ResponseSpot - o.strike >= 0 THEN ResponseSpot - o.strike ELSE 0)
      /\ o.extrinsic =
           (IF o.premium - o.intrinsic >= 0 THEN o.premium - o.intrinsic ELSE 0)
      /\ o.intrinsic >= 0
      /\ o.extrinsic >= 0

\* An option in the money whose premium exceeds its intrinsic value.
C4_Witness ==
  /\ IsSuccess
  /\ \E i \in DOMAIN ResponseOptions :
       ResponseOptions[i].intrinsic > 0 /\ ResponseOptions[i].extrinsic > 0

\* The premium the stated order of strategies gives a row: the midpoint of a
\* two-sided quote, else mid / midpoint / mark / mark_price, else the last
\* trade, else the day close, else break-even minus strike.
C5_StatedPremium(d, row, strike) ==
  LET q == Get(row, K.last_quote)
      day == Get(row, K.day)
      bid == quoteBid(d, row)
      ask == quoteAsk(d, row)
      mid == firstNumber(d, <<Get(q, K.mid), Get(q, K.midpoint),
                               Get(q, K.mark), Get(q, K.mark_price)>>)
      lastTrade == parseNumberOf(d, Get(Get(row, K.last_trade), K.price))
      dayClose == firstNumber(d, <<Get(day, K.close), Get(day, K.c),
                                    Get(day, K.last), Get(day, K.price),
                                    Get(day, K.last_price)>>)
      breakEven == parseNumberOf(d, Get(row, K.break_even_price))
  IN IF bid.t = "num" /\ ask.t = "num" THEN Num((bid.n + ask.n) \div 2)
     ELSE IF mid.t = "num" THEN mid
     ELSE IF lastTrade.t = "num" THEN lastTrade
     ELSE IF dayClose.t = "num" THEN dayClose
     ELSE IF breakEven.t = "num" THEN Num(breakEven.n - strike)
     ELSE Null

\* C5: the premium of a valued contract comes from the first strategy that
\* succeeds, in the order two-sided midpoint, mid/mark, last trade, day close,
\* break-even minus strike (stated for responses that value every retained
\* row, where option i belongs to row i).
C5_PremiumOrder ==
  (IsSuccess /\ Len(ResponseOptions) = Len(rows)) =>
    \A i \in DOMAIN rows :
      C5_StatedPremium(draft, rows[i], ResponseOptions[i].strike)
        = Num(ResponseOptions[i].premium)

\* C6: every option of a success response has a premium >= 0, also when the
\* premium is break_even_price - strike.
C6_PremiumNonNegative ==
  IsSuccess => \A i \in DOMAIN ResponseOptions : ResponseOptions[i].premium >= 0

\* The expiration strings among the retained rows that are not before today.
C7_Present ==
  {rowExpiration(rows[i]).s :
     i \in {j \in DOMAIN rows : /\ rowExpiration(rows[j]).t = "str"
                                /\ StrGeq(rowExpiration(rows[j]).s, today)}}

C8_StatedCandidates(snapshot) ==
  <<Get(snapshot, K.price), Get(snapshot, K.last_price),
    Get(snapshot, K.close), Get(snapshot, K.day_close),
    Get(snapshot, K.c), Get(snapshot, K.last),
    Get(Get(snapshot, K.last_trade), K.price),
    Get(Get(snapshot, K.last_trade), K.p),
    Get(Get(snapshot, K.day), K.close), Get(Get(snapshot, K.day), K.c),
    Get(Get(snapshot, K.day), K.last), Get(Get(snapshot, K.day), K.last_price),
    Get(Get(snapshot, K.day), K.price),
    Get(Get(snapshot, K.last_quote), K.bid),
    Get(Get(snapshot, K.last_quote), K.bid_price),
    Get(Get(snapshot, K.last_quote), K.ask),
    Get(Get(snapshot, K.last_quote), K.ask_price),
    Get(Get(snapshot, K.last_quote), K.mid),
    Get(Get(snapshot, K.last_quote), K.midpoint)>>
  \o collectPriceCandidates(snapshot, 0)

C8_Stated(d, snapshot) ==
  IF ~Truthy(snapshot) THEN Null
  ELSE firstParsed(d, C8_StatedCandidates(snapshot))

\* The first price the stated resolver finds in the rows' underlying_asset.
RECURSIVE C8_FirstRowPrice(_, _)
C8_FirstRowPrice(d, rs) ==
  IF rs = <<>> THEN Null
  ELSE LET here == C8_Stated(d, Get(Head(rs), K.underlying_asset))
       IN IF here.t # "null" THEN here ELSE C8_FirstRowPrice(d, Tail(rs))

\* C8: pickUnderlyingPrice returns the first candidate that parses in the
\* stated order, a recursively found value when every explicit one fails
\* (stated for part_001 and part_002 where the price, if any, was read from
\* the retained rows: it is the first the stated resolver finds in them).
C8_ResolverOrder ==
  (draft \in {"p001", "p002"} /\ priceSource \in {"none", "row"}) =>
    underlyingPrice = C8_FirstRowPrice(draft, rows)

\* C9: the stock quote endpoint is consulted before the sources of the options
\* chain: a price is read from a page's underlying_asset or from a contract
\* row only after the stock endpoint was asked.
C9_QuoteFirst == priceSource \in {"page", "row"} => stockFetches > 0

C10_Blank(raw) == raw.t # "str" \/ \A i \in DOMAIN raw.s : raw.s[i] = " "

\* C10: a missing, empty or blank ticker is answered 400 and a valid ticker
\* without MASSIVE_API_KEY 500, the ticker being checked first and no
\* upstream request issued; otherwise the ticker used upstream is the trimmed,
\* upper-cased parameter.
C10_Validation ==
  pc # "start" =>
    IF C10_Blank(rawTicker)
      THEN /\ response.status = 400
           /\ pageFetches = 0 /\ stockFetches = 0 /\ lastRequest = NoUrl
    ELSE IF apiKey.t # "str" \/ apiKey.s = <<>>
      THEN /\ response.status = 500
           /\ pageFetches = 0 /\ stockFetches = 0 /\ lastRequest = NoUrl
    ELSE /\ ticker = ToUpperCase(Trim(rawTicker.s))
         /\ pageFetches + stockFetches > 0
         /\ lastRequest.kind \in {"options", "stocks"} =>
              \/ lastRequest.path = encodeURIComponent(ToUpperCase(Trim(rawTicker.s)))
              \/ lastRequest.ticker = ToUpperCase(Trim(rawTicker.s))

\* A blank ticker and no credential: the answer is the ticker's 400.
C10_Witness ==
  /\ pc = "done"
  /\ rawTicker = Str(<<" ", " ">>)
  /\ apiKey = Undef
  /\ response.status = 400

\* C11: every response is a success payload (price, expirations, options) or
\* a failure with status 400 for a bad ticker, 500 for a missing credential
\* or 502 for a failed page fetch; no other status is answered, also when the
\* stock quote yields no price.
C11_ResponseStatuses ==
  pc = "done" =>
    /\ response.status \in {200, 400, 500, 502}
    /\ response.status = 200 =>
         /\ DOMAIN response.body \in
              {{"underlyingPrice", "expirations", "options"},
               {"underlyingSpot", "expirations", "options"}}
         /\ failure = NoFailure
    /\ response.status = 400 => C10_Blank(rawTicker)
    /\ response.status = 500 => ~Truthy(apiKey)
    /\ response.status = 502 => failure # NoFailure

\* C12: when a successful page carries a next_url that new URL() rejects, no
\* further page is fetched and the request ends in a success response built
\* from every row accumulated up to and including that page.
C12_BadCursorEndsPaging ==
  lastCursor.k = "bad" =>
    /\ pc \in {"awaitFallback", "done"}
    /\ nextUrl = NoUrl
    /\ pc = "done" =>
         /\ response.status = 200
         /\ ResponseExpirations = validExpirations(rows, today)
         /\ Len(ResponseOptions) =
              Cardinality({i \in DOMAIN rows :
                /\ rowExpiration(rows[i]).t = "str"
                /\ Includes(ResponseExpirations, rowExpiration(rows[i]).s)
                /\ valuate(draft, rows[i], ticker, ResponseSpot) # <<>>})

\* The scalars of a value whose nearest enclosing key satisfies the stated
\* rule: it matches price|close|last|trade|bid|ask and none of
\* strike|premium|option, whatever the case.
C13_KeyAdmitted(key) ==
  LET lower == ToLowerCase(key) IN
  /\ \E w \in {K.price, K.close, K.last, K.trade, K.bid, K.ask} :
       Contains(lower, w)
  /\ \A w \in {K.strike, K.premium, K.option} : ~Contains(lower, w)

RECURSIVE C13_Held(_, _)
C13_Held(value, admitted) ==
  CASE value.t \in {"num", "str"} -> IF admitted THEN {value} ELSE {}
    [] value.t = "arr" ->
         UNION {C13_Held(value.a[i], admitted) : i \in DOMAIN value.a}
    [] value.t = "obj" ->
         UNION {C13_Held(value.f[i][2], C13_KeyAdmitted(value.f[i][1])) :
                  i \in DOMAIN value.f}
    [] OTHER -> {}

\* The values the explicit candidates of the resolver read.
C13_Explicit(snapshot) ==
  {directCandidates(snapshot)[i] : i \in DOMAIN directCandidates(snapshot)}

\* C13: the recursive scan collects a scalar only when the key that holds it
\* is price-like and not excluded, so the resolver returns no value held
\* under a strike / premium / option key or under a key that is not
\* price-like, arrays and objects under excluded keys included.
C13_ScanRespectsKeys ==
  (pc = "applied" /\ draft = "p002") =>
    /\ arg.fn = "collectPriceCandidates" =>
         \A i \in DOMAIN out.a :
           out.a[i].t \in {"num", "str"} => out.a[i] \in C13_Held(arg.value, FALSE)
    /\ (arg.fn = "pickUnderlyingPrice" /\ out.t = "num") =>
         \E c \in C13_Held(arg.value, FALSE) \cup C13_Explicit(arg.value) :
           parseNumber(c) = out

\* The price fields of a snapshot: the values the explicit candidates read
\* and the scalars held under a price-like key.
C14_PriceFields(snapshot) ==
  C13_Held(snapshot, FALSE) \cup C13_Explicit(snapshot)

\* C14: pickUnderlyingPrice returns a number for every snapshot that holds at
\* least one price field the draft's parseNumber accepts, and null for a null,
\* undefined or empty snapshot.
C14_ResolverFinds ==
  (pc = "applied" /\ arg.fn = "pickUnderlyingPrice") =>
    /\ (\E c \in C14_PriceFields(arg.value) : parseNumberOf(draft, c).t = "num")
         => out.t = "num"
    /\ arg.value \in {Undef, Null, MkObj(<<>>)} => out = Null

\* The string left after trimming and dropping every character outside
\* [0-9 e E + - .], the currency sign and the comma among them.
C20_Stripped(s) ==
  LET trimmed == Trim(s)
  IN [i \in 1..Cardinality({j \in DOMAIN trimmed : trimmed[j] \in NumericChars})
        |-> trimmed[CHOOSE j \in DOMAIN trimmed :
              /\ trimmed[j] \in NumericChars
              /\ Cardinality({k \in 1..j : trimmed[k] \in NumericChars}) = i]]

C20_Incomplete == {<<>>, <<"-">>, <<".">>, <<"-", ".">>, <<"+">>}

\* C20: parseNumber returns null for null and undefined, for values that are
\* neither number nor string, and for strings that are empty, blank or
\* incomplete once stripped, never 0 for these; a number is returned as it
\* is, and any other string gives the decimal value of the stripped string.
C20_ParseNumber ==
  (pc = "applied" /\ arg.fn = "parseNumber") =>
    CASE arg.value.t = "num" -> out = arg.value
      [] arg.value.t = "str" ->
           IF C20_Stripped(arg.value.s) \in C20_Incomplete
             THEN out = Null /\ out # Num(0)
             ELSE out = (IF NumberOfString(C20_Stripped(arg.value.s)).t = "num"
                           THEN NumberOfString(C20_Stripped(arg.value.s))
                           ELSE Null)
      [] OTHER -> out = Null

\* C15: every option of a success response has target2x = strike + 2 * premium
\* and target3x = strike + 3 * premium, from the strike and the premium the
\* option itself reports.
C15_Targets ==
  IsSuccess =>
    \A i \in DOMAIN ResponseOptions :
      /\ ResponseOptions[i].target2x =
           ResponseOptions[i].strike + 2 * ResponseOptions[i].premium
      /\ ResponseOptions[i].target3x =
           ResponseOptions[i].strike + 3 * ResponseOptions[i].premium

\* An option whose strike came from a string and whose premium is positive,
\* so that strike, 2x target and 3x target all differ.
C15_Witness ==
  /\ IsSuccess
  /\ \E i \in DOMAIN ResponseOptions :
       /\ ResponseOptions[i].strike = 20
       /\ ResponseOptions[i].premium > 0
       /\ ResponseOptions[i].target3x > ResponseOptions[i].target2x

\* C16: a request for which no source gives an underlying price is no error:
\* the response is a success with a null price, and every option's intrinsic
\* value is 0 whatever its strike.
C16_NoPriceDegrades ==
  (/\ pc = "done"
   /\ ~C10_Blank(rawTicker)
   /\ Truthy(apiKey)
   /\ failure = NoFailure
   /\ underlyingPrice = Null) =>
    /\ response.status = 200
    /\ ResponsePrice = Null
    /\ \A i \in DOMAIN ResponseOptions : ResponseOptions[i].intrinsic = 0

\* The options the retained rows give, in the order of the rows: a row counts
\* when its expiration is one of the listed ones and its valuation yields an
\* option.
RECURSIVE C17_Expected(_, _, _, _, _)
C17_Expected(d, rs, listed, tk, spot) ==
  IF rs = <<>> THEN <<>>
  ELSE (IF /\ rowExpiration(Head(rs)).t = "str"
           /\ \E i \in DOMAIN listed : listed[i] = rowExpiration(Head(rs)).s
          THEN valuate(d, Head(rs), tk, spot) ELSE <<>>)
       \o C17_Expected(d, Tail(rs), listed, tk, spot)

\* C17: every option of a success response expires on a date of the
\* response's expirations, and the options are exactly the retained rows
\* with such a date that pass valuation, in the order they were accumulated.
C17_SelectedOptions ==
  IsSuccess =>
    /\ \A i \in DOMAIN ResponseOptions :
         \E j \in DOMAIN ResponseExpirations :
           ResponseExpirations[j] = ResponseOptions[i].expiration
    /\ ResponseOptions =
         C17_Expected(draft, rows, ResponseExpirations, ticker, ResponseSpot)

\* Options of more than one expiration were returned while a retained row
\* that would pass valuation was left out for its date.
C17_Witness ==
  /\ IsSuccess
  /\ \E i, j \in DOMAIN ResponseOptions :
       ResponseOptions[i].expiration # ResponseOptions[j].expiration
  /\ \E i \in DOMAIN rows :
       /\ valuate(draft, rows[i], ticker, ResponseSpot) # <<>>
       /\ \A j \in DOMAIN ResponseExpirations :
            ResponseExpirations[j] # rowExpiration(rows[i]).s

\* The contract type of a row, in lower case, is "call".
C18_CallRow(row) ==
  /\ Get(Get(row, K.details), K.contract_type).t = "str"
  /\ ToLowerCase(Get(Get(row, K.details), K.contract_type).s)
       = <<"c", "a", "l", "l">>

\* C18: only rows whose contract type is "call" in any case are accumulated;
\* every option comes from such a row whose strike_price parsed to the
\* option's strike, every expiration from such a row, and a price read from a
\* row from such a row.
C18_CallsOnly ==
  /\ \A i \in DOMAIN rows : C18_CallRow(rows[i])
  /\ IsSuccess =>
       /\ \A j \in DOMAIN ResponseOptions :
            \E i \in DOMAIN rows :
              /\ C18_CallRow(rows[i])
              /\ parseNumberOf(draft, Get(Get(rows[i], K.details), K.strike_price))
                   = Num(ResponseOptions[j].strike)
              /\ rowExpiration(rows[i]) = Str(ResponseOptions[j].expiration)
       /\ \A j \in DOMAIN ResponseExpirations :
            \E i \in DOMAIN rows :
              /\ C18_CallRow(rows[i])
              /\ rowExpiration(rows[i]) = Str(ResponseExpirations[j])
  /\ priceSource = "row" =>
       \E i \in DOMAIN rows :
         /\ C18_CallRow(rows[i])
         /\ pickUnderlyingFromRow(draft, rows[i]) = underlyingPrice

\* A row typed "CaLL" with the strike "20" was retained and valued, and the
\* price was read from a row.
C18_Witness ==
  /\ IsSuccess
  /\ priceSource = "row"
  /\ \E i \in DOMAIN rows :
       /\ Get(Get(rows[i], K.details), K.contract_type)
            = Str(<<"C", "a", "L", "L">>)
       /\ \E j \in DOMAIN ResponseOptions : ResponseOptions[j].strike = 20

\* C19: every URL requested from the options chain carries the apiKey
\* parameter exactly once: a next_url without it gets it appended, a next_url
\* with it is requested as it came.
C19_KeyOnce ==
  /\ lastRequest # NoUrl => lastRequest.nkeys = 1
  /\ (pc = "awaitPage" /\ lastCursor.k = "url") =>
       lastRequest = (IF lastCursor.url.nkeys = 0
                        THEN [lastCursor.url EXCEPT !.nkeys = 1]
                        ELSE lastCursor.url)


\* The retained rows without those whose valuation yields no option.
RECURSIVE C21_Passing(_, _, _, _)
C21_Passing(d, rs, tk, spot) ==
  IF rs = <<>> THEN <<>>
  ELSE (IF valuate(d, Head(rs), tk, spot) # <<>> THEN <<Head(rs)>> ELSE <<>>)
       \o C21_Passing(d, Tail(rs), tk, spot)

\* C21: a row that fails valuation is dropped and never fails the request;
\* the options of the success response are those the handler would return
\* had the failing rows not been among the retained rows.
C21_FailingRowLocal ==
  IsSuccess =>
    ResponseOptions =
      buildPayload(draft,
                   C21_Passing(draft, rows, ticker, ResponseSpot),
                   ResponsePrice, ticker, today).options

\* C28: every date in the expirations of a success response is the
\* expiration of at least one option of that response.
C28_ListedDatesHaveOptions ==
  IsSuccess =>
    \A j \in DOMAIN ResponseExpirations :
      \E i \in DOMAIN ResponseOptions :
        ResponseOptions[i].expiration = ResponseExpirations[j]


\* What is left for the handler to do: the pages below the ceiling, the
\* fallback attempts, and the steps around them.
C22_Measure ==
  CASE pc = "start" -> MAX_PAGES + FALLBACK_ATTEMPTS + 3
    [] pc = "awaitQuote" -> MAX_PAGES + FALLBACK_ATTEMPTS + 2
    [] pc = "awaitPage" -> (MAX_PAGES - page) + FALLBACK_ATTEMPTS + 1
    [] pc = "awaitFallback" -> (FALLBACK_ATTEMPTS - attempt) + 1
    [] OTHER -> 0

\* C22: when every upstream fetch eventually returns, every request
\* eventually produces a response, and exactly one: each step uses up part of
\* a measure that never goes below zero, whatever the pages carry (cursors
\* that repeat included), and a response once produced is never replaced.
C22_OneResponse ==
  /\ <>(pc = "done")
  /\ [](C22_Measure >= 0)
  /\ [][C22_Measure' < C22_Measure]_vars
  /\ []((pc = "done") <=> (response # NoResponse))
  /\ [][response # NoResponse => response' = response]_vars

\* The response was produced at the page ceiling while the latest cursor
\* pointed back to the URL that had just been fetched.
C22_Witness ==
  /\ pc = "done"
  /\ response # NoResponse
  /\ page = MAX_PAGES
  /\ lastCursor = [k |-> "url", url |-> lastRequest]


\* What a page leaves behind apart from the log counter.
C24_Observable(r) ==
  [rows |-> r.st.rows, price |-> r.st.price, source |-> r.st.source,
   next |-> r.next]

RECURSIVE C25_Scalars(_, _)
C25_Scalars(value, n) ==
  IF n < 0 THEN {}
  ELSE IF value.t \in {"num", "str"} THEN {value}
  ELSE IF value.t = "arr"
    THEN UNION {C25_Scalars(value.a[i], n - 1) : i \in DOMAIN value.a}
  ELSE IF value.t = "obj"
    THEN UNION {C25_Scalars(value.f[i][2], n - 1) : i \in DOMAIN value.f}
  ELSE {}

C26_Qualifies(v) == v.t = "num" /\ v.n > 0

\* The first of lastTrade.p, day.c and prevDay.c that counts, or null.
C26_Stated(quote) ==
  LET quoteTicker == Get(quote, K.ticker)
      lastTrade == Get(Get(quoteTicker, K.lastTrade), K.p)
      dayClose == Get(Get(quoteTicker, K.day), K.c)
      prevClose == Get(Get(quoteTicker, K.prevDay), K.c)
  IN IF quoteTicker.t # "obj" THEN Null
     ELSE IF C26_Qualifies(lastTrade) THEN lastTrade
     ELSE IF C26_Qualifies(dayClose) THEN dayClose
     ELSE IF C26_Qualifies(prevClose) THEN prevClose
     ELSE Null

\* C26: getUnderlyingSpotFromQuote returns the first of lastTrade.p, day.c
\* and prevDay.c that is a number greater than zero, and null when there is
\* no ticker object or no candidate counts; in the draft that uses it a null
\* spot ends the request with no options-chain page fetched, and a spot that
\* is found becomes the price of the request.
C26_QuoteSpot ==
  /\ arg.fn = "getUnderlyingSpotFromQuote" =>
       /\ out = C26_Stated(arg.value)
       /\ out = Null => (pc = "done" /\ response.status = 404 /\ pageFetches = 0)
       /\ out # Null => (underlyingPrice = out /\ pageFetches >= 1)
  /\ (draft = "r2" /\ pc = "done" /\ underlyingPrice = Null /\ Truthy(apiKey)
        /\ response.status # 400) =>
       (response.status = 404 /\ pageFetches = 0)

\* The spot came from the previous day's close, the two earlier candidates
\* not counting, and the request went on to a success response.
C26_Witness ==
  /\ arg.fn = "getUnderlyingSpotFromQuote"
  /\ out = Get(Get(Get(arg.value, K.ticker), K.prevDay), K.c)
  /\ out.t = "num"
  /\ IsSuccess


\* C27: every upstream request that carries the credential goes to the
\* provider's host, the requests to URLs taken from next_url included (every
\* request carries the key as a query parameter once ensureApiKey has run).
C27_CredentialHost ==
  (lastRequest # NoUrl /\ lastRequest.nkeys >= 1) =>
    lastRequest.host = MASSIVE_HOST


\* C29: in part_002 the stock-snapshot fallback runs only once pagination
\* has completed without a page failure and with no price resolved; it
\* issues at most two requests, and none once a price is there; whatever its
\* attempts do (throw, fail, return nothing usable), the request ends in the
\* success payload, whose price is null when no attempt yielded one.
C29_FallbackDiscipline ==
  /\ []((draft = "p002" /\ stockFetches >= 1) =>
          /\ failure = NoFailure
          /\ ~loopContinues(page, nextUrl)
          /\ page >= 1
          /\ priceSource \in {"none", "fallback"}
          /\ stockFetches <= 2
          /\ pc \in {"awaitFallback", "done"}
          /\ pc = "awaitFallback" => underlyingPrice = Null
          /\ pc = "done" =>
               /\ IsSuccess
               /\ ResponsePrice = underlyingPrice
               /\ priceSource = "none" => ResponsePrice = Null)
  /\ [][(draft = "p002" /\ stockFetches' > stockFetches) =>
          (underlyingPrice = Null /\ underlyingPrice' = Null)]_vars
  /\ [][(draft = "p002" /\ pc = "awaitFallback" /\ underlyingPrice' # Null) =>
          (pc' = "done" /\ stockFetches' = stockFetches)]_vars

\* Both fallback requests were issued, neither yielded a price, and the
\* success payload was returned with a null price and valued options.
C29_Witness ==
  /\ draft = "p002"
  /\ stockFetches = 2
  /\ IsSuccess
  /\ ResponsePrice = Null
  /\ ResponseOptions # <<>>


\* The calls that sent a request, in the order they were issued.
C30_Requests == SelectSeq(calls, LAMBDA c : c.status # "refused")

\* C30: in HomePage, once every request in flight has ended, the state
\* shows the outcome of the most recently issued fetchChain call that sent a
\* request, with loading false (a later call refused for an empty ticker
\* only adds its error), and data and error are never both set.
C30_LatestCallShown ==
  /\ (C30_Requests # <<>>
        /\ \A i \in DOMAIN calls : calls[i].status # "pending") =>
       LET latest == C30_Requests[Len(C30_Requests)] IN
       /\ state.loading = FALSE
       /\ state.data = settledState(latest, latest.status).data
       /\ calls[Len(calls)].status # "refused" =>
            state = settledState(latest, latest.status)
  /\ ~(state.data # Null /\ state.error # Null)


\* The loop state a request reaches when it runs alone against the pages of
\* its chain, from page pg on.
RECURSIVE C23_AloneLoop(_, _, _, _)
C23_AloneLoop(d, fam, pg, st) ==
  LET r == pageBody(d, CHOOSE body \in PageBodies(fam, pg, st.rows) : TRUE, st)
  IN IF loopContinues(pg + 1, r.next.url)
       THEN C23_AloneLoop(d, fam, pg + 1, r.st)
       ELSE r.st

\* A returned request q has the response it would have alone: the error its
\* own ticker or its own failed page gives, or the payload of the rows and
\* the price its own pages give (the price of its own quote or fallback
\* where it had one), on its own date.
C23_AsAlone(q) ==
  q.pc = "done" =>
    LET alone == C23_AloneLoop(draft, q.family, 0,
                   [rows |-> <<>>,
                    price |-> IF draft = "r2" THEN q.underlyingPrice ELSE Null,
                    source |-> "none", debugs |-> 0])
    IN CASE q.response.status = 200 ->
              q.response =
                success(draft, alone.rows,
                        IF q.priceSource = "fallback"
                          THEN q.underlyingPrice ELSE alone.price,
                        normalizeTicker(q.rawTicker.s), q.today)
         [] q.response.status = 502 ->
              q.response.body = pageFailureBody(draft, q.failure)
         [] q.response.status = 404 ->
              draft = "r2" /\ q.pageFetches = 0
         [] OTHER -> q.response = validate(q.rawTicker, apiKey)

\* C23: two requests whose steps interleave at their awaits each return the
\* response they would return alone against the same upstream responses.
C23_Isolated ==
  /\ C23_AsAlone(requestLocals)
  /\ parked # NoRequest => C23_AsAlone(parked)

\* One request returned its success payload while the other was suspended
\* in the middle of its pagination, rows already retained.
C23_Witness ==
  /\ IsSuccess
  /\ parked # NoRequest
  /\ parked.pc = "awaitPage"
  /\ parked.page = 1
  /\ parked.rows # <<>>

====
